---- MODULE Spec2Model ----
(***************************************************************************)
(* Model of the auto-resolution subsystem of mindformers                   *)
(* (src/mindformers/auto_class.py): AutoConfig, AutoModel, AutoProcessor   *)
(* and AutoTokenizer.  A call of an entry point is a process that walks    *)
(* through the statements of the method; the filesystem is shared.         *)
(*                                                                         *)
(* Strings are sequences of one-character strings, so that split('_'),     *)
(* endswith('.yaml') and '+' are computed.  A path is a sequence of        *)
(* components relative to the working directory.                           *)
(***************************************************************************)
EXTENDS Integers, Sequences, FiniteSets, TLC

VARIABLES fs, pc, call, loc, result, events, heap, name_table, snap, prev, ncalls, nenv,
          support_list, walk, origin, download, maker, cell, dataset

\* the state of the programs beside auto_class.py, each modelled on its own:
\* download_tools.py, make_mindrecord.py, gpt_lm.py and keyword_gen_dataset.py
tools == <<download, maker, cell, dataset>>
\* the state of auto_class.py
auto == <<fs, pc, call, loc, result, events, heap, name_table, snap, prev, ncalls, nenv,
          support_list, walk, origin>>

vars == <<fs, pc, call, loc, result, events, heap, name_table, snap, prev, ncalls, nenv,
          support_list, walk, origin, download, maker, cell, dataset>>

(***************************************************************************)
(* Bounds of the model.                                                    *)
(***************************************************************************)
\* calls made in one behaviour
MaxCalls == 2
\* external changes of the filesystem in one behaviour
MaxEnv == 1
\* config objects alive in a process (object identities are 1..MaxObjs)
MaxObjs == 1
\* operations of the one caller of SpecReuse in one behaviour
MaxOps == 4
\* the longest tokenizer output and the largest seq_length of SpecMaker
MaxIds == 3
MaxSeqLength == 3
\* constructions of a dataset from one dataset_config in SpecDataset
MaxConstructs == 2
\* the depth of recursion at which the interpreter gives up (RecursionError)
MaxDepth == 4

Procs == {"p1", "p2"}

(***************************************************************************)
(* Strings.                                                                *)
(***************************************************************************)
bert == <<"b","e","r","t">>
mae == <<"m","a","e">>
bert_base_uncased == <<"b","e","r","t","_","b","a","s","e","_","u","n","c","a","s","e","d">>
mae_vit_base_p16 == <<"m","a","e","_","v","i","t","_","b","a","s","e","_","p","1","6">>
bert_large == <<"b","e","r","t","_","l","a","r","g","e">>
doesnotexist_1 == <<"d","o","e","s","n","o","t","e","x","i","s","t","_","1">>
cfg_yaml == <<"c","f","g",".","y","a","m","l">>
a_yaml == <<"a",".","y","a","m","l">>
b_yaml == <<"b",".","y","a","m","l">>
w_ckpt == <<"w",".","c","k","p","t">>
v_ckpt == <<"v",".","c","k","p","t">>
save_dir == <<"s","a","v","e">>
tokenizer_config_json == <<"t","o","k","e","n","i","z","e","r","_","c","o","n","f","i","g",".","j","s","o","n">>
checkpoint_download == <<"c","h","e","c","k","p","o","i","n","t","_","d","o","w","n","l","o","a","d">>
project == <<"m","i","n","d","f","o","r","m","e","r","s">>
configs == <<"c","o","n","f","i","g","s">>
model_config == <<"m","o","d","e","l","_","c","o","n","f","i","g">>
dot_yaml == <<".","y","a","m","l">>
dot_ckpt == <<".","c","k","p","t">>

SetMin(S) == CHOOSE i \in S : \A j \in S : i <= j

\* str.split('_')[0]
split0(s) ==
    LET idx == {i \in 1..Len(s) : s[i] = "_"}
    IN  IF idx = {} THEN s ELSE SubSeq(s, 1, SetMin(idx) - 1)

\* str.endswith(suffix)
endswith(s, suffix) ==
    /\ Len(s) >= Len(suffix)
    /\ SubSeq(s, Len(s) - Len(suffix) + 1, Len(s)) = suffix

\* os.path.join(dir, name) for a relative, separator-free name
join(dir, name) == Append(dir, name)

\* the path a separator-free string names, relative to the working directory
PathOf(s) == <<s>>

\* mutant: the matches are taken from the end of the listing
filter_endswith_reversed(list, suffix) ==
    LET sel == SelectSeq(list, LAMBDA file : endswith(file, suffix))
    IN  [i \in 1..Len(sel) |-> sel[Len(sel) + 1 - i]]

\* [x for x in list if x.endswith(suffix)]
RECURSIVE filter_endswith(_, _)
filter_endswith(list, suffix) ==
    IF list = <<>> THEN <<>>
    ELSE (IF endswith(Head(list), suffix) THEN <<Head(list)>> ELSE <<>>)
         \o filter_endswith(Tail(list), suffix)

\* sum(d.values(), []) as the set of its elements
sum_values(d) == UNION {{d[k][i] : i \in 1..Len(d[k])} : k \in DOMAIN d}

\* x in list
InList(x, list) == \E i \in 1..Len(list) : list[i] = x

(***************************************************************************)
(* Values of a configuration tree.                                         *)
(***************************************************************************)
Val(s) == [k |-> "val", v |-> s]
None == [k |-> "none"]
Dict(items) == [k |-> "dict", items |-> items]
Cfg(cls, items) == [k |-> "cfg", cls |-> cls, items |-> items]
Malformed == [k |-> "malformed"]

\* dict.update(upd)
update(d, upd) == upd @@ d
\* the mapping without a key (dict.pop's effect on the mapping)
without(d, key) == [x \in (DOMAIN d) \ {key} |-> d[x]]
\* dict.get(key, None)
get(d, key) == IF key \in DOMAIN d THEN d[key] ELSE None

(***************************************************************************)
(* Contents of the configuration files, as MindFormerConfig parses them.   *)
(***************************************************************************)
BertYaml ==
    Dict([model |-> Dict([arch |-> Dict([type |-> Val("BertForPreTraining")]),
                          model_config |-> Dict([type |-> Val("BertConfig"),
                                                 seq_length |-> Val("128")])]),
          processor |-> Dict([type |-> Val("BertProcessor"),
                              tokenizer |-> Dict([type |-> Val("BertTokenizer")])])])

\* the bundled template of a later release
BertYamlV2 ==
    Dict([model |-> Dict([arch |-> Dict([type |-> Val("BertForPreTraining")]),
                          model_config |-> Dict([type |-> Val("BertConfig"),
                                                 seq_length |-> Val("512")])]),
          processor |-> Dict([type |-> Val("BertProcessor"),
                              tokenizer |-> Dict([type |-> Val("BertTokenizer")])])])

MaeYaml ==
    Dict([model |-> Dict([arch |-> Dict([type |-> Val("Mae")]),
                          model_config |-> Dict([type |-> Val("MaeConfig"),
                                                 checkpoint_name_or_path |-> Val("old.ckpt")])]),
          processor |-> Dict([type |-> Val("MaeProcessor")])])

\* a configuration whose model config nests two configs
ClipYaml ==
    Dict([model |-> Dict([arch |-> Dict([type |-> Val("ClipModel")]),
                          model_config |-> Dict([type |-> Val("ClipConfig"),
                                                 text_config |-> Dict([type |-> Val("ClipTextConfig")]),
                                                 vision_config |-> Dict([type |-> Val("ClipVisionConfig")])])]),
          processor |-> Dict([type |-> Val("ClipProcessor"),
                              tokenizer |-> Dict([type |-> Val("ClipTokenizer")])])])

\* a well-formed file that names a model class nobody registered
UnregYaml ==
    Dict([model |-> Dict([arch |-> Dict([type |-> Val("MyModel")]),
                          model_config |-> Dict([type |-> Val("BertConfig")])]),
          processor |-> Dict([type |-> Val("MyProcessor"),
                              tokenizer |-> Dict([type |-> Val("MyTokenizer")])])])

(***************************************************************************)
(* The collaborators of auto_class.py that are not part of the sources:    *)
(* the support lists and well-known folders of MindFormerBook, the         *)
(* registry, the config loader and the builders.                           *)
(***************************************************************************)
\* MindFormerBook.get_model_support_list()
get_model_support_list == (bert :> <<bert_base_uncased>>) @@ (mae :> <<mae_vit_base_p16>>)
\* MindFormerBook.get_tokenizer_support_list()
get_tokenizer_support_list == (bert :> <<bert_base_uncased>>)
\* MindFormerBook.get_default_checkpoint_download_folder()
get_default_checkpoint_download_folder == <<checkpoint_download>>
\* MindFormerBook.get_project_path()
get_project_path == <<project>>

\* the classes registered at import time, as (module type, class name)
Registry ==
    {<<"models", "BertForPreTraining">>, <<"models", "Mae">>, <<"models", "ClipModel">>,
     <<"config", "BertConfig">>, <<"config", "MaeConfig">>, <<"config", "ClipConfig">>,
     <<"config", "ClipTextConfig">>, <<"config", "ClipVisionConfig">>,
     <<"processor", "BertProcessor">>, <<"processor", "ClipProcessor">>,
     <<"tokenizer", "BertTokenizer">>, <<"tokenizer", "ClipTokenizer">>}

(***************************************************************************)
(* The _support_list class attributes.  support_list holds the mapping     *)
(* objects by identity; a class attribute names one of them.               *)
(***************************************************************************)
\* the objects MindFormerBook hands out: the same two on every call
Book == [model |-> get_model_support_list, tokenizer |-> get_tokenizer_support_list]

\* mutant: the class keeps MindFormerBook's own object
copy_alias(store, obj) == [store |-> store, ref |-> obj]
\* copy.deepcopy(obj): a new object with the same content  (auto_class.py:335)
copy_deepcopy(store, obj) == [store |-> ("copy" :> store[obj]) @@ store, ref |-> "copy"]

\* the body of class AutoProcessor: deep copy, then pop("mae")  (auto_class.py:335-336)
AutoProcessor_class ==
    LET copied == copy_deepcopy(Book, "model")
    IN  [store |-> [copied.store EXCEPT ![copied.ref] = without(@, mae)],
         ref |-> copied.ref]

\* the object each class's _support_list names  (auto_class.py:53, 152, 335, 440)
SupportListRef(cls) ==
    CASE cls = "AutoConfig" -> "model"
      [] cls = "AutoModel" -> "model"
      [] cls = "AutoProcessor" -> AutoProcessor_class.ref
      [] cls = "AutoTokenizer" -> "tokenizer"

(***************************************************************************)
(* The filesystem: a function from the existing paths to their nodes.      *)
(***************************************************************************)
DirNode(list) == [kind |-> "dir", list |-> list, content |-> None]
FileNode(content) == [kind |-> "file", list |-> <<>>, content |-> content]

\* os.path.exists
exists(f, path) == path \in DOMAIN f
\* os.path.isdir
isdir(f, path) == path \in DOMAIN f /\ f[path].kind = "dir"
\* os.path.isfile
isfile(f, path) == path \in DOMAIN f /\ f[path].kind = "file"
\* os.listdir: the names in the order the filesystem lists them
listdir(f, path) == f[path].list

Parent(path) == SubSeq(path, 1, Len(path) - 1)
Last(path) == path[Len(path)]

\* a new entry appears in the listing of its directory
AddEntry(f, path, node) ==
    LET par == Parent(path)
        g == IF path # <<>> /\ par \in DOMAIN f /\ path \notin DOMAIN f
             THEN [f EXCEPT ![par].list = Append(@, Last(path))]
             ELSE f
    IN  (path :> node) @@ g

\* os.makedirs(path): the directory and every missing ancestor
RECURSIVE makedirs(_, _)
makedirs(f, path) ==
    IF path \in DOMAIN f THEN f
    ELSE AddEntry(IF path = <<>> THEN f ELSE makedirs(f, Parent(path)), path, DirNode(<<>>))

\* shutil.copy(src, dst) of a regular file
copy(f, src, dst) == AddEntry(f, dst, FileNode(f[src].content))

\* an entry disappears
RemoveEntry(f, path) ==
    LET par == Parent(path)
        g == [q \in (DOMAIN f) \ {path} |-> f[q]]
        keep == {i \in 1..Len(f[par].list) : f[par].list[i] # Last(path)}
        RECURSIVE pick(_)
        pick(i) == IF i > Len(f[par].list) THEN <<>>
                   ELSE (IF i \in keep THEN <<f[par].list[i]>> ELSE <<>>) \o pick(i + 1)
    IN  [g EXCEPT ![par].list = pick(1)]

\* the cache directory of a bare name (auto_class.py:92-93)
checkpoint_path_of(s) == join(get_default_checkpoint_download_folder, split0(s))
\* the cached config file of a bare name (auto_class.py:98)
yaml_file_of(s) == join(checkpoint_path_of(s), s \o dot_yaml)
\* the bundled default template of a bare name (auto_class.py:100-103)
default_yaml_file_of(s) ==
    join(join(join(join(get_project_path, configs), split0(s)), model_config), s \o dot_yaml)

(***************************************************************************)
(* Initial filesystems.                                                    *)
(***************************************************************************)
RECURSIVE AddFiles(_, _, _)
AddFiles(f, dir, entries) ==
    IF entries = <<>> THEN f
    ELSE AddFiles(AddEntry(f, join(dir, Head(entries)[1]), FileNode(Head(entries)[2])),
                  dir, Tail(entries))

WithDir(f, dir, entries) == AddFiles(makedirs(f, dir), dir, entries)

\* the installed package: one bundled template per supported name
Installed ==
    LET root == (<<>> :> DirNode(<<>>))
        b == WithDir(root, Parent(default_yaml_file_of(bert_base_uncased)),
                     << <<bert_base_uncased \o dot_yaml, BertYaml>> >>)
    IN  WithDir(b, Parent(default_yaml_file_of(mae_vit_base_p16)),
                << <<mae_vit_base_p16 \o dot_yaml, MaeYaml>> >>)

TokenizerJson == Dict([tokenizer_class |-> Val("BertTokenizer")])

\* a saved tokenizer directory next to a file called like a supported name
SavedTokenizer ==
    WithDir(AddEntry(Installed, PathOf(bert_base_uncased), FileNode(Malformed)),
            PathOf(save_dir), << <<a_yaml, MaeYaml>>, <<tokenizer_config_json, TokenizerJson>> >>)

\* what the working directory holds when the program starts
Layouts ==
    { Installed,
      WithDir(AddEntry(Installed, PathOf(cfg_yaml), FileNode(ClipYaml)),
              PathOf(save_dir), << <<a_yaml, BertYaml>>, <<w_ckpt, None>> >>),
      WithDir(AddEntry(Installed, PathOf(cfg_yaml), FileNode(Malformed)),
              PathOf(save_dir), << <<w_ckpt, None>> >>),
      WithDir(AddEntry(Installed, PathOf(cfg_yaml), FileNode(UnregYaml)),
              PathOf(save_dir), << <<b_yaml, UnregYaml>>, <<v_ckpt, None>>,
                                   <<a_yaml, BertYaml>>, <<w_ckpt, None>> >>),
      WithDir(WithDir(Installed, PathOf(bert_base_uncased),
                      << <<w_ckpt, None>>, <<a_yaml, Malformed>> >>),
              PathOf(save_dir), << <<a_yaml, BertYaml>> >>),
      SavedTokenizer,
      WithDir(Installed, PathOf(save_dir), << <<tokenizer_config_json, Dict([do_lower_case |-> Val("true")])>> >>),
      WithDir(Installed, PathOf(bert_base_uncased), << <<w_ckpt, None>> >>),
      WithDir(Installed, checkpoint_path_of(bert_base_uncased),
              << <<bert_base_uncased \o dot_yaml, MaeYaml>> >>) }

(***************************************************************************)
(* Calls.                                                                  *)
(***************************************************************************)
StrArg(s) == [t |-> "str", s |-> s, id |-> 0]
IntArg == [t |-> "int", s |-> <<>>, id |-> 0]
NoneArg == [t |-> "None", s |-> <<>>, id |-> 0]
CfgArg(i) == [t |-> "BaseConfig", s |-> <<>>, id |-> i]

\* the strings the caller passes
Identifiers == {bert_base_uncased, mae_vit_base_p16, bert_large, doesnotexist_1,
                cfg_yaml, save_dir}

FromPretrained == {"AutoConfig", "AutoModel", "AutoProcessor", "AutoTokenizer"}
Entries == FromPretrained \cup {"from_config"}
\* the classmethods about the support list, and the class one is called on
ListEntries == {"show_support_list", "get_support_list"}
ClsArg(cls) == [t |-> "cls", s |-> <<cls>>, id |-> 0]

\* config objects the caller constructs directly
UserConfigs ==
    { Cfg("BertConfig", [seq_length |-> Val("128")]),
      Cfg("ClipConfig", [model_name |-> Val("ClipModel"),
                         text_config |-> Cfg("ClipTextConfig", [type |-> Val("stale")]),
                         vision_config |-> Cfg("ClipVisionConfig", [depth |-> Val("12")])]),
      Cfg("MaeConfig", [model_name |-> None]) }

NoLoc == [branch |-> "none", checkpoint_path |-> <<>>, yaml_file |-> <<>>,
          ckpt_file |-> <<>>, config_args |-> None, class_name |-> None]
NoResult == [kind |-> "none", exc |-> "", err |-> "", value |-> None]
NoCall == [entry |-> "", arg |-> NoneArg]
NoSnap == [fs |-> <<>>, heap |-> <<>>, name_table |-> <<>>]
\* no conversion of an object graph is under way
NoWalk == [input |-> <<>>, objs |-> <<>>, root |-> None, stack |-> <<>>, visits |-> <<>>,
           calls |-> 0,
           ret |-> [kind |-> "none", value |-> None]]
NoPrev == [valid |-> FALSE, s |-> <<>>, yaml_file |-> <<>>, nenv |-> 0,
           entry |-> "", arch |-> None, serial |-> 0]

\* every process is between calls
Quiet == \A p \in Procs : pc[p] \in {"idle", "off"}

InitWith(active, layouts) ==
    /\ fs \in layouts
    /\ pc = [p \in Procs |-> IF p \in active THEN "idle" ELSE "off"]
    /\ call = [p \in Procs |-> NoCall]
    /\ loc = [p \in Procs |-> NoLoc]
    /\ result = [p \in Procs |-> NoResult]
    /\ events = [p \in Procs |-> <<>>]
    /\ heap = [p \in Procs |-> <<>>]
    /\ name_table = [p \in Procs |-> <<>>]
    /\ snap = [p \in Procs |-> NoSnap]
    /\ prev = NoPrev
    /\ ncalls = 0
    /\ nenv = 0
    /\ support_list = AutoProcessor_class.store
    /\ origin = [p \in Procs |-> <<>>]

\* none of the other programs is running
NoDownload == [pc |-> "off"]
NoMaker == [pc |-> "off"]
NoCell == [pc |-> "off"]
NoDataset == [pc |-> "off"]
ToolsOff(running) ==
    /\ "download" \in running \/ download = NoDownload
    /\ "maker" \in running \/ maker = NoMaker
    /\ "cell" \in running \/ cell = NoCell
    /\ "dataset" \in running \/ dataset = NoDataset

Init == InitWith({"p1"}, Layouts) /\ walk = NoWalk /\ ToolsOff({})

\* what the finished call leaves for the next one to be compared with
Summary(p) ==
    [valid |-> loc[p].branch = "cache" /\ InList("CacheResolved", events[p]),
     s |-> call[p].arg.s, yaml_file |-> loc[p].yaml_file, nenv |-> nenv,
     entry |-> call[p].entry,
     arch |-> IF loc[p].branch = "config"
              THEN loc[p].config_args.items["model"].items["arch"].items["type"] ELSE None,
     serial |-> IF call[p].arg.t = "BaseConfig" THEN origin[p][call[p].arg.id].serial ELSE 0]

\* mutant: the error is swallowed and the caller gets None
Raise_swallowed(p, exc, err) ==
    /\ pc' = [pc EXCEPT ![p] = "done"]
    /\ result' = [result EXCEPT ![p] = [kind |-> "return", exc |-> "", err |-> "", value |-> None]]

\* raise exc: the call ends with an error of kind err and nothing is returned
Raise(p, exc, err) ==
    /\ pc' = [pc EXCEPT ![p] = "done"]
    /\ result' = [result EXCEPT ![p] = [kind |-> "raise", exc |-> exc, err |-> err, value |-> None]]

\* return value
Return(p, value) ==
    /\ pc' = [pc EXCEPT ![p] = "done"]
    /\ result' = [result EXCEPT ![p] = [kind |-> "return", exc |-> "", err |-> "", value |-> value]]

Goto(p, label) ==
    /\ pc' = [pc EXCEPT ![p] = label]
    /\ UNCHANGED result

Log(p, evs) == events' = [events EXCEPT ![p] = @ \o evs]

ArgsOf(p, entry) ==
    IF entry \in FromPretrained
    THEN {StrArg(s) : s \in Identifiers} \cup {IntArg}
    ELSE IF entry \in ListEntries
    THEN {ClsArg(cls) : cls \in FromPretrained}
    ELSE {NoneArg, StrArg(cfg_yaml), StrArg(save_dir)} \cup {CfgArg(i) : i \in DOMAIN heap[p]}

\* the caller invokes an entry point
CallWith(p, limit, choices) ==
    /\ pc[p] = "idle"
    /\ ncalls < limit
    /\ \E choice \in choices :
          /\ choice.entry = "AutoConfig" => Cardinality(DOMAIN heap[p]) < MaxObjs
          /\ call' = [call EXCEPT ![p] = choice]
          /\ pc' = [pc EXCEPT ![p] = choice.entry]
    /\ snap' = [snap EXCEPT ![p] = [fs |-> fs, heap |-> heap[p], name_table |-> name_table[p]]]
    /\ ncalls' = ncalls + 1
    /\ UNCHANGED <<fs, loc, result, events, heap, name_table, prev, nenv, support_list, walk, origin, tools>>

\* an entry point with an argument for it
Choices(p, entries) ==
    UNION { {[entry |-> entry, arg |-> arg] : arg \in ArgsOf(p, entry)} : entry \in entries }

Call(p) == CallWith(p, MaxCalls, Choices(p, Entries \cup ListEntries))

\* the caller takes the outcome; the call's frame is gone
Finish(p) ==
    /\ pc[p] = "done"
    /\ pc' = [pc EXCEPT ![p] = "idle"]
    /\ call' = [call EXCEPT ![p] = NoCall]
    /\ loc' = [loc EXCEPT ![p] = NoLoc]
    /\ result' = [result EXCEPT ![p] = NoResult]
    /\ events' = [events EXCEPT ![p] = <<>>]
    /\ snap' = [snap EXCEPT ![p] = NoSnap]
    /\ prev' = Summary(p)
    /\ UNCHANGED <<fs, heap, name_table, ncalls, nenv, support_list, walk, origin, tools>>

(***************************************************************************)
(* The collaborators' operations (mindformers/models/build_*.py,           *)
(* tools/register): not part of the sources, modelled from the design.     *)
(***************************************************************************)
\* the type tag of a tree, and whether a class is registered under it
type_of(tree) ==
    IF tree.k \in {"dict", "cfg"} /\ "type" \in DOMAIN tree.items
    THEN tree.items["type"] ELSE None
registered(module_type, tree) ==
    /\ type_of(tree).k = "val"
    /\ <<module_type, type_of(tree).v>> \in Registry

\* build_model_config: an instance of the class the tree's type names, its nested
\* typed trees built the same way
RECURSIVE build_model_config(_)
build_model_config(tree) ==
    IF tree.k = "dict" /\ "type" \in DOMAIN tree.items
    THEN Cfg(tree.items["type"].v,
             [key \in (DOMAIN tree.items) \ {"type"} |-> build_model_config(tree.items[key])])
    ELSE tree

\* every typed tree in it names a registered config class
RECURSIVE config_buildable(_)
config_buildable(tree) ==
    IF tree.k = "dict" /\ "type" \in DOMAIN tree.items
    THEN /\ registered("config", tree)
         /\ \A key \in (DOMAIN tree.items) \ {"type"} : config_buildable(tree.items[key])
    ELSE TRUE

\* MindFormerConfig(path): the tree the file holds; malformed input (or no regular
\* file) is a ParseError
parse_ok(f, yaml_file) == isfile(f, yaml_file) /\ f[yaml_file].content.k = "dict"
MindFormerConfig(f, yaml_file) == f[yaml_file].content

\* what a builder returns: an instance of a registered class made from a tree
Instance(module_type, cls, tree) ==
    [k |-> "instance", module |-> module_type, cls |-> cls, config |-> tree]

(***************************************************************************)
(* Resolution of a bare name through the cache, the block the four         *)
(* from_pretrained methods share (auto_class.py:92-110, 281-299, 379-402,  *)
(* 519-535).                                                               *)
(***************************************************************************)
\* mutant: only the family is looked up
not_supported_family(_support_list, s) == split0(s) \notin DOMAIN _support_list
\* yaml_name_or_path.split('_')[0] not in support_list.keys() or
\* yaml_name_or_path not in support_list[...]  (auto_class.py:86-87, 257-258)
not_supported(_support_list, s) ==
    \/ split0(s) \notin DOMAIN _support_list
    \/ ~InList(s, _support_list[split0(s)])

\* mutant: the directory is never created
need_makedirs_never(f, checkpoint_path) == FALSE
\* mutant: the directory is created without the check
need_makedirs_always(f, checkpoint_path) == TRUE
\* if not os.path.exists(checkpoint_path):  (auto_class.py:95)
need_makedirs(f, checkpoint_path) == ~exists(f, checkpoint_path)
\* mutant: the template is copied whether or not a cached file exists
need_copy_always(f, yaml_file) == TRUE
\* if not os.path.exists(yaml_file):  (auto_class.py:99)
need_copy(f, yaml_file) == ~exists(f, yaml_file)
\* mutant: the template is taken to be there
has_default_always(f, default_yaml_file) == TRUE
\* if os.path.realpath(default_yaml_file) and os.path.exists(default_yaml_file):
\* (auto_class.py:104; realpath of a non-empty string is never empty)
has_default(f, default_yaml_file) == exists(f, default_yaml_file)

\* auto_class.py:95
CacheCheckDir(p) ==
    /\ pc[p] = "cache_chkdir"
    /\ Goto(p, IF need_makedirs(fs, loc[p].checkpoint_path) THEN "cache_mkdir" ELSE "cache_chkyaml")
    /\ UNCHANGED <<fs, call, loc, events, heap, name_table, snap, prev, ncalls, nenv, support_list, walk, origin, tools>>

\* os.makedirs(checkpoint_path)  (auto_class.py:96)
CacheMakedirs(p) ==
    /\ pc[p] = "cache_mkdir"
    /\ IF exists(fs, loc[p].checkpoint_path)
       THEN /\ Raise(p, "FileExistsError", "FileExists")
            /\ UNCHANGED fs
       ELSE /\ fs' = makedirs(fs, loc[p].checkpoint_path)
            /\ Goto(p, "cache_chkyaml")
    /\ Log(p, <<"mkdir">>)
    /\ UNCHANGED <<call, loc, heap, name_table, snap, prev, ncalls, nenv, support_list, walk, origin, tools>>

\* auto_class.py:98-104 and 107-108
CacheCheckYaml(p) ==
    LET yaml_file == join(loc[p].checkpoint_path, call[p].arg.s \o dot_yaml)
        default_yaml_file == default_yaml_file_of(call[p].arg.s)
    IN  /\ pc[p] = "cache_chkyaml"
        /\ loc' = [loc EXCEPT ![p].yaml_file = yaml_file]
        /\ IF ~need_copy(fs, yaml_file)
           THEN Goto(p, "load") /\ Log(p, <<"CacheResolved">>)
           ELSE IF has_default(fs, default_yaml_file)
                THEN Goto(p, "cache_copy") /\ UNCHANGED events
                ELSE Raise(p, "FileNotFoundError", "MissingDefault") /\ UNCHANGED events
        /\ UNCHANGED <<fs, call, heap, name_table, snap, prev, ncalls, nenv, support_list, walk, origin, tools>>

\* shutil.copy(default_yaml_file, yaml_file)  (auto_class.py:105)
CacheCopy(p) ==
    LET default_yaml_file == default_yaml_file_of(call[p].arg.s)
    IN  /\ pc[p] = "cache_copy"
        /\ IF isfile(fs, default_yaml_file) /\ isdir(fs, loc[p].checkpoint_path)
           THEN /\ fs' = copy(fs, default_yaml_file, loc[p].yaml_file)
                /\ Goto(p, "load")
                /\ Log(p, <<"copy", "CacheResolved">>)
           ELSE /\ Raise(p, "FileNotFoundError", "NotFound")
                /\ Log(p, <<"copy">>)
                /\ UNCHANGED fs
        /\ UNCHANGED <<call, loc, heap, name_table, snap, prev, ncalls, nenv, support_list, walk, origin, tools>>

\* where a call goes on once its configuration is loaded
AfterLoad(entry) ==
    CASE entry = "AutoConfig" -> "AutoConfig_build"
      [] entry = "AutoModel" -> "AutoModel_build"
      [] entry = "from_config" -> "from_config_build"
      [] entry = "AutoProcessor" -> "AutoProcessor_build"
      [] entry = "AutoTokenizer" -> "tok_class_name"

\* config_args = MindFormerConfig(yaml_file)  (auto_class.py:83, 110)
LoadConfig(p) ==
    /\ pc[p] = "load"
    /\ IF parse_ok(fs, loc[p].yaml_file)
       THEN /\ loc' = [loc EXCEPT ![p].config_args = MindFormerConfig(fs, loc[p].yaml_file)]
            /\ Goto(p, AfterLoad(call[p].entry))
            /\ Log(p, <<"load", "ConfigLoaded">>)
       ELSE /\ Raise(p, "YAMLError", "ParseError")
            /\ Log(p, <<"load">>)
            /\ UNCHANGED loc
    /\ UNCHANGED <<fs, call, heap, name_table, snap, prev, ncalls, nenv, support_list, walk, origin, tools>>

(***************************************************************************)
(* AutoConfig.from_pretrained                                              *)
(***************************************************************************)
AutoConfig_support_list == support_list[SupportListRef("AutoConfig")]

\* mutant: the argument's type is not checked
not_a_str_never(arg) == FALSE
\* if not isinstance(yaml_name_or_path, str):  (auto_class.py:74, 245, 356, 513)
not_a_str(arg) == arg.t # "str"

\* mutant: the extension is not checked
bad_extension_never(yaml_name_or_path) == FALSE
\* if not yaml_name_or_path.endswith(".yaml"):  (auto_class.py:79)
bad_extension(yaml_name_or_path) == ~endswith(yaml_name_or_path, dot_yaml)

\* auto_class.py:74-93
AutoConfig_from_pretrained(p) ==
    LET yaml_name_or_path == call[p].arg.s
    IN  /\ pc[p] = "AutoConfig"
        /\ IF not_a_str(call[p].arg)
           THEN Raise(p, "TypeError", "InvalidArgument") /\ UNCHANGED <<loc, events>>
           ELSE IF exists(fs, PathOf(yaml_name_or_path))
           THEN IF bad_extension(yaml_name_or_path)
                THEN /\ Raise(p, "ValueError", "InvalidArgument")
                     /\ Log(p, <<"Resolving">>)
                     /\ UNCHANGED loc
                ELSE /\ Goto(p, "load")
                     /\ Log(p, <<"Resolving">>)
                     /\ loc' = [loc EXCEPT ![p].branch = "path",
                                           ![p].yaml_file = PathOf(yaml_name_or_path)]
           ELSE IF not_supported(AutoConfig_support_list, yaml_name_or_path)
           THEN /\ Raise(p, "ValueError", "UnsupportedIdentifier")
                /\ Log(p, <<"Resolving">>)
                /\ UNCHANGED loc
           ELSE /\ Goto(p, "cache_chkdir")
                /\ Log(p, <<"Resolving">>)
                /\ loc' = [loc EXCEPT ![p].branch = "cache",
                                      ![p].checkpoint_path = checkpoint_path_of(yaml_name_or_path)]
        /\ UNCHANGED <<fs, call, heap, name_table, snap, prev, ncalls, nenv, support_list, walk, origin, tools>>

\* mutant: the name is not recorded
\* history: where the object an identity stands for comes from -- the architecture
\* name of the file AutoConfig built it from, or the caller -- and the number of the
\* operation that made it, which tells it from an earlier object of the same identity
Born(by, arch) == [by |-> by, arch |-> arch, serial |-> ncalls]

record_name_nothing(table, ident, name) == table
\* MindFormerBook.set_model_config_to_name(id(config), config_args.model.arch.type)
\* (auto_class.py:113): the entry is added, or overwrites the one the identity had
record_name(table, ident, name) == (ident :> name) @@ table

\* auto_class.py:112-114
AutoConfig_build(p) ==
    LET config_args == loc[p].config_args
        tree == config_args.items["model"].items["model_config"]
        arch_type == type_of(config_args.items["model"].items["arch"])
    IN  /\ pc[p] = "AutoConfig_build"
        /\ IF config_buildable(tree) /\ type_of(tree).k = "val"
           THEN \E i \in (1..MaxObjs) \ DOMAIN heap[p] :
                   /\ heap' = [heap EXCEPT ![p] = (i :> build_model_config(tree)) @@ @]
                   /\ name_table' = [name_table EXCEPT ![p] = record_name(@, i, arch_type)]
                   /\ origin' = [origin EXCEPT ![p] = (i :> Born("AutoConfig", arch_type)) @@ @]
                   /\ Return(p, CfgArg(i))
                   /\ Log(p, <<"lookup", "build", "Built">>)
           ELSE /\ Raise(p, "ValueError", "UnregisteredType")
                /\ Log(p, <<"lookup">>)
                /\ UNCHANGED <<heap, name_table, origin>>
        /\ UNCHANGED <<fs, call, loc, snap, prev, ncalls, nenv, support_list, walk, tools>>

(***************************************************************************)
(* AutoModel                                                               *)
(***************************************************************************)
AutoModel_support_list == support_list[SupportListRef("AutoModel")]

\* build_model(config_args.model): the class model.arch.type names, built from
\* model.model_config
build_model_ok(model) == registered("models", model.items["arch"])
build_model(model) ==
    Instance("models", type_of(model.items["arch"]).v, model.items["model_config"])

\* mutant: a value the file gave is kept
inject_checkpoint_setdefault(config_args, value) ==
    [config_args EXCEPT !.items["model"].items["model_config"].items =
        @ @@ [checkpoint_name_or_path |-> value]]
\* config_args.model.model_config.update({"checkpoint_name_or_path": value})
inject_checkpoint(config_args, value) ==
    [config_args EXCEPT !.items["model"].items["model_config"].items =
        update(@, [checkpoint_name_or_path |-> value])]

\* mutant: an existing file is taken for a bare name
not_a_directory_never(is_exist, is_dir) == FALSE
\* if is_exist: if not is_dir:  (auto_class.py:252-253)
not_a_directory(is_exist, is_dir) == is_exist /\ ~is_dir

\* auto_class.py:245-286
AutoModel_from_pretrained(p) ==
    LET pretrained_model_name_or_dir == call[p].arg.s
        path == PathOf(pretrained_model_name_or_dir)
        is_exist == exists(fs, path)
        is_dir == isdir(fs, path)
        yaml_list == filter_endswith(listdir(fs, path), dot_yaml)
        ckpt_list == filter_endswith(listdir(fs, path), dot_ckpt)
    IN  /\ pc[p] = "AutoModel"
        /\ IF not_a_str(call[p].arg)
           THEN Raise(p, "TypeError", "InvalidArgument") /\ UNCHANGED <<loc, events>>
           ELSE IF not_a_directory(is_exist, is_dir)
           THEN /\ Raise(p, "ValueError", "InvalidArgument")
                /\ Log(p, <<"Resolving">>)
                /\ UNCHANGED loc
           ELSE IF ~is_exist /\ not_supported(AutoModel_support_list, pretrained_model_name_or_dir)
           THEN /\ Raise(p, "ValueError", "UnsupportedIdentifier")
                /\ Log(p, <<"Resolving">>)
                /\ UNCHANGED loc
           ELSE IF is_dir
           THEN IF yaml_list = <<>> \/ ckpt_list = <<>>
                THEN /\ Raise(p, "FileNotFoundError", "NotFound")
                     /\ Log(p, <<"Resolving">>)
                     /\ UNCHANGED loc
                ELSE /\ Goto(p, "load")
                     /\ Log(p, <<"Resolving", "DirectoryResolved">>)
                     /\ loc' = [loc EXCEPT ![p].branch = "dir",
                                           ![p].yaml_file = join(path, yaml_list[1]),
                                           ![p].ckpt_file = join(path, ckpt_list[1])]
           ELSE /\ Goto(p, "cache_chkdir")
                /\ Log(p, <<"Resolving">>)
                /\ loc' = [loc EXCEPT ![p].branch = "cache",
                                      ![p].checkpoint_path =
                                          checkpoint_path_of(pretrained_model_name_or_dir)]
        /\ UNCHANGED <<fs, call, heap, name_table, snap, prev, ncalls, nenv, support_list, walk, origin, tools>>

\* the value of the injected key: the chosen weight file, or the name itself
checkpoint_value(p) ==
    IF loc[p].branch = "dir" THEN [k |-> "path", path |-> loc[p].ckpt_file]
    ELSE [k |-> "str", s |-> call[p].arg.s]

\* auto_class.py:278-279 and 300-304
AutoModel_build(p) ==
    LET config_args == inject_checkpoint(loc[p].config_args, checkpoint_value(p))
    IN  /\ pc[p] = "AutoModel_build"
        /\ loc' = [loc EXCEPT ![p].config_args = config_args]
        /\ IF build_model_ok(config_args.items["model"])
           THEN /\ Return(p, build_model(config_args.items["model"]))
                /\ Log(p, <<"lookup", "build", "Built">>)
           ELSE /\ Raise(p, "ValueError", "UnregisteredType")
                /\ Log(p, <<"lookup">>)
        /\ UNCHANGED <<fs, call, heap, name_table, snap, prev, ncalls, nenv, support_list, walk, origin, tools>>

\* mutant: a type key that is there already is kept
tag_keep(items, class_name) == items @@ [type |-> Val(class_name)]
\* config.update({"type": class_name})  (auto_class.py:203-204)
tag(items, class_name) == update(items, [type |-> Val(class_name)])

\* a conversion that leaves the object as it is
_inverse_parse_config_untagged(config) == config

\* AutoModel._inverse_parse_config (auto_class.py:200-210)
RECURSIVE _inverse_parse_config(_)
_inverse_parse_config(config) ==
    IF config.k # "cfg" THEN config
    ELSE LET tagged == tag(config.items, config.cls)
         IN  [config EXCEPT !.items = [key \in DOMAIN tagged |-> _inverse_parse_config(tagged[key])]]

\* mutant: the side table is never asked
wrap_model_name_no_table(config, table, ident) == get(config.items, "model_name")
\* model_name = config.pop("model_name", None), then the side table (auto_class.py:223-225)
wrap_model_name(config, table, ident) ==
    IF get(config.items, "model_name").k # "none" THEN get(config.items, "model_name")
    ELSE get(table, ident)

\* the config object after config.pop("model_name", None)
wrap_popped(config) == [config EXCEPT !.items = without(@, "model_name")]

\* AutoModel._wrap_config (auto_class.py:223-229)
_wrap_config(config, table, ident) ==
    LET arch == Cfg("BaseConfig", [type |-> wrap_model_name(config, table, ident)])
        model == Cfg("BaseConfig", [model_config |-> wrap_popped(config), arch |-> arch])
    IN  Cfg("BaseConfig", [model |-> model])

\* auto_class.py:173-183
AutoModel_from_config(p) ==
    LET config == call[p].arg
        inversed_config == _inverse_parse_config(heap[p][config.id])
    IN  /\ pc[p] = "from_config"
        /\ IF config.t = "None"
           THEN /\ Raise(p, "ValueError", "InvalidArgument")
                /\ UNCHANGED <<loc, events, heap>>
           ELSE IF config.t = "BaseConfig"
           THEN /\ heap' = [heap EXCEPT ![p][config.id] = wrap_popped(inversed_config)]
                /\ loc' = [loc EXCEPT ![p].branch = "config",
                                      ![p].config_args =
                                          _wrap_config(inversed_config, name_table[p], config.id)]
                /\ Goto(p, "from_config_build")
                /\ Log(p, <<"Resolving", "ConfigLoaded">>)
           ELSE IF exists(fs, PathOf(config.s)) /\ endswith(config.s, dot_yaml)
           THEN /\ loc' = [loc EXCEPT ![p].branch = "path", ![p].yaml_file = PathOf(config.s)]
                /\ Goto(p, "load")
                /\ Log(p, <<"Resolving">>)
                /\ UNCHANGED heap
           ELSE /\ Raise(p, "ValueError", "InvalidArgument")
                /\ Log(p, <<"Resolving">>)
                /\ UNCHANGED <<loc, heap>>
        /\ UNCHANGED <<fs, call, name_table, snap, prev, ncalls, nenv, support_list, walk, origin, tools>>

\* auto_class.py:185-187
AutoModel_from_config_build(p) ==
    LET config_args == loc[p].config_args
    IN  /\ pc[p] = "from_config_build"
        /\ IF build_model_ok(config_args.items["model"])
           THEN /\ Return(p, build_model(config_args.items["model"]))
                /\ Log(p, <<"lookup", "build", "Built">>)
           ELSE /\ Raise(p, "ValueError", "UnregisteredType")
                /\ Log(p, <<"lookup">>)
        /\ UNCHANGED <<fs, call, loc, heap, name_table, snap, prev, ncalls, nenv, support_list, walk, origin, tools>>

(***************************************************************************)
(* AutoProcessor.from_pretrained                                           *)
(***************************************************************************)
AutoProcessor_support_list == support_list[SupportListRef("AutoProcessor")]

\* auto_class.py:356-390
AutoProcessor_from_pretrained(p) ==
    LET yaml_name_or_path == call[p].arg.s
        path == PathOf(yaml_name_or_path)
        is_exist == exists(fs, path)
        model_name == split0(yaml_name_or_path)
        yaml_list == filter_endswith(listdir(fs, path), dot_yaml)
    IN  /\ pc[p] = "AutoProcessor"
        /\ IF not_a_str(call[p].arg)
           THEN Raise(p, "TypeError", "InvalidArgument") /\ UNCHANGED <<loc, events>>
           ELSE IF ~is_exist /\ model_name \notin DOMAIN AutoProcessor_support_list
           THEN /\ Raise(p, "ValueError", "UnsupportedIdentifier")
                /\ Log(p, <<"Resolving">>)
                /\ UNCHANGED loc
           ELSE IF is_exist
           THEN IF isdir(fs, path)
                THEN IF yaml_list = <<>>
                     THEN /\ Raise(p, "IndexError", "IndexError")
                          /\ Log(p, <<"Resolving">>)
                          /\ UNCHANGED loc
                     ELSE /\ Goto(p, "load")
                          /\ Log(p, <<"Resolving", "DirectoryResolved">>)
                          /\ loc' = [loc EXCEPT ![p].branch = "dir",
                                                ![p].yaml_file = join(path, yaml_list[1])]
                ELSE /\ Goto(p, "load")
                     /\ Log(p, <<"Resolving">>)
                     /\ loc' = [loc EXCEPT ![p].branch = "path", ![p].yaml_file = path]
           ELSE IF model_name \in DOMAIN AutoProcessor_support_list
                   /\ InList(yaml_name_or_path, AutoProcessor_support_list[model_name])
           THEN /\ Goto(p, "cache_chkdir")
                /\ Log(p, <<"Resolving">>)
                /\ loc' = [loc EXCEPT ![p].branch = "cache",
                                      ![p].checkpoint_path =
                                          join(get_default_checkpoint_download_folder, model_name)]
           ELSE /\ Raise(p, "ValueError", "UnsupportedIdentifier")
                /\ Log(p, <<"Resolving">>)
                /\ UNCHANGED loc
        /\ UNCHANGED <<fs, call, heap, name_table, snap, prev, ncalls, nenv, support_list, walk, origin, tools>>

\* auto_class.py:404-409
AutoProcessor_build(p) ==
    LET processor == get(loc[p].config_args.items, "processor")
    IN  /\ pc[p] = "AutoProcessor_build"
        /\ IF registered("processor", processor)
           THEN /\ Return(p, Instance("processor", type_of(processor).v, processor))
                /\ Log(p, <<"lookup", "build", "Built">>)
           ELSE /\ Raise(p, "ValueError", "UnregisteredType")
                /\ Log(p, <<"lookup">>)
        /\ UNCHANGED <<fs, call, loc, heap, name_table, snap, prev, ncalls, nenv, support_list, walk, origin, tools>>

(***************************************************************************)
(* AutoTokenizer.from_pretrained                                           *)
(***************************************************************************)
AutoTokenizer_support_list == support_list[SupportListRef("AutoTokenizer")]

\* auto_class.py:513-520 and 536-543
AutoTokenizer_from_pretrained(p) ==
    LET yaml_name_or_path == call[p].arg.s
    IN  /\ pc[p] = "AutoTokenizer"
        /\ IF not_a_str(call[p].arg)
           THEN Raise(p, "TypeError", "InvalidArgument") /\ UNCHANGED <<loc, events>>
           ELSE IF yaml_name_or_path \in sum_values(AutoTokenizer_support_list)
           THEN /\ Goto(p, "cache_chkdir")
                /\ Log(p, <<"Resolving">>)
                /\ loc' = [loc EXCEPT ![p].branch = "cache",
                                      ![p].checkpoint_path = checkpoint_path_of(yaml_name_or_path)]
           ELSE IF isdir(fs, PathOf(yaml_name_or_path))
           THEN /\ Goto(p, "tok_dir")
                /\ Log(p, <<"Resolving">>)
                /\ loc' = [loc EXCEPT ![p].branch = "dir"]
           ELSE /\ Raise(p, "FileNotFoundError", "NotFound")
                /\ Log(p, <<"Resolving">>)
                /\ UNCHANGED loc
        /\ UNCHANGED <<fs, call, heap, name_table, snap, prev, ncalls, nenv, support_list, walk, origin, tools>>

\* AutoTokenizer._get_class_name_from_yaml on a directory (auto_class.py:452-464)
AutoTokenizer_get_class_name_from_yaml(p) ==
    LET path == PathOf(call[p].arg.s)
        yaml_list == filter_endswith(listdir(fs, path), dot_yaml)
    IN  /\ pc[p] = "tok_dir"
        /\ IF ~exists(fs, path) \/ ~isdir(fs, path)
           THEN Raise(p, "ValueError", "InvalidArgument") /\ UNCHANGED <<loc, events>>
           ELSE IF yaml_list = <<>>
           THEN Goto(p, "tok_fallback") /\ UNCHANGED <<loc, events>>
           ELSE /\ Goto(p, "load")
                /\ Log(p, <<"DirectoryResolved">>)
                /\ loc' = [loc EXCEPT ![p].yaml_file = join(path, yaml_list[1])]
        /\ UNCHANGED <<fs, call, heap, name_table, snap, prev, ncalls, nenv, support_list, walk, origin, tools>>

\* config['processor']['tokenizer'].pop('type', None) when all three keys are there
yaml_class_name(config) ==
    IF /\ "processor" \in DOMAIN config.items
       /\ "tokenizer" \in DOMAIN config.items["processor"].items
       /\ "type" \in DOMAIN config.items["processor"].items["tokenizer"].items
    THEN config.items["processor"].items["tokenizer"].items["type"]
    ELSE None

\* auto_class.py:470-476, then 535 or 537-538
AutoTokenizer_class_name(p) ==
    LET class_name == yaml_class_name(loc[p].config_args)
    IN  /\ pc[p] = "tok_class_name"
        /\ loc' = [loc EXCEPT ![p].class_name = class_name]
        /\ Goto(p, IF loc[p].branch = "dir" /\ class_name.k = "none"
                   THEN "tok_fallback" ELSE "tok_build")
        /\ UNCHANGED <<fs, call, events, heap, name_table, snap, prev, ncalls, nenv, support_list, walk, origin, tools>>

\* AutoTokenizer._get_class_name_from_tokenizer_config_file (auto_class.py:488-498)
AutoTokenizer_get_class_name_from_tokenizer_config_file(p) ==
    LET tokenizer_config_path == join(PathOf(call[p].arg.s), tokenizer_config_json)
        config_kwargs == fs[tokenizer_config_path].content
        class_name == get(config_kwargs.items, "tokenizer_class")
    IN  /\ pc[p] = "tok_fallback"
        /\ IF ~exists(fs, tokenizer_config_path)
           THEN Raise(p, "FileNotFoundError", "NotFound") /\ UNCHANGED loc
           ELSE IF class_name.k = "none"
           THEN Raise(p, "ValueError", "MissingField") /\ UNCHANGED loc
           ELSE /\ Goto(p, "tok_build")
                /\ loc' = [loc EXCEPT ![p].class_name = class_name]
        /\ UNCHANGED <<fs, call, events, heap, name_table, snap, prev, ncalls, nenv, support_list, walk, origin, tools>>

\* mutant: the class is looked up among the models
tokenizer_module_type_models == "models"
\* MindFormerRegister.get_cls(module_type='tokenizer', ...)  (auto_class.py:545)
tokenizer_module_type == "tokenizer"

\* auto_class.py:545-548
AutoTokenizer_build(p) ==
    LET class_name == loc[p].class_name
    IN  /\ pc[p] = "tok_build"
        /\ IF class_name.k = "val" /\ <<tokenizer_module_type, class_name.v>> \in Registry
           THEN /\ Return(p, Instance(tokenizer_module_type, class_name.v, Val("from_pretrained")))
                /\ Log(p, <<"lookup", "build", "Built">>)
           ELSE /\ Raise(p, "ValueError", "UnregisteredType")
                /\ Log(p, <<"lookup">>)
        /\ UNCHANGED <<fs, call, loc, heap, name_table, snap, prev, ncalls, nenv, support_list, walk, origin, tools>>

(***************************************************************************)
(* show_support_list and get_support_list of the four classes              *)
(***************************************************************************)
\* mutant: the list that is shown loses its first family
shown_popped(store, ref) ==
    [store EXCEPT ![ref] = without(@, CHOOSE family \in DOMAIN @ : TRUE)]
\* print_dict(cls._support_list): the store after the mapping was printed
\* (auto_class.py:120, 310, 415, 554)
shown(store, ref) == store

\* auto_class.py:117-120, 307-310, 412-415, 551-554
show_support_list(p) ==
    /\ pc[p] = "show_support_list"
    /\ support_list' = shown(support_list, SupportListRef(call[p].arg.s[1]))
    /\ Return(p, None)
    /\ Log(p, <<"print">>)
    /\ UNCHANGED <<fs, call, loc, heap, name_table, snap, prev, ncalls, nenv, walk, origin, tools>>

\* return cls._support_list: the object itself, not a copy
\* (auto_class.py:123-125, 313-315, 418-420, 557-559)
get_support_list(p) ==
    /\ pc[p] = "get_support_list"
    /\ Return(p, [k |-> "ref", obj |-> SupportListRef(call[p].arg.s[1])])
    /\ UNCHANGED <<fs, call, loc, events, heap, name_table, snap, prev, ncalls, nenv,
                   support_list, walk, origin, tools>>

(***************************************************************************)
(* AutoModel._inverse_parse_config, call by call, on config objects that   *)
(* refer to one another by identity.  walk.objs are the objects, walk.stack *)
(* the frames of the recursion, innermost last.                            *)
(***************************************************************************)
Ref(i) == [k |-> "ref", id |-> i]
Obj(cls, items) == [cls |-> cls, items |-> items]
Frame(arg) == [arg |-> arg, phase |-> "enter", pending |-> {}, key |-> ""]

\* the config objects the conversion is tried on: a flat one, a tree, a chain, one
\* with a shared child, and one whose child refers back to it
FlatConfig == 1 :> Obj("BertConfig", [seq_length |-> Val("128")])
TreeConfig ==
    (1 :> Obj("ClipConfig", [model_name |-> Val("ClipModel"),
                             text_config |-> Ref(2), vision_config |-> Ref(3)]))
    @@ (2 :> Obj("ClipTextConfig", [type |-> Val("stale")]))
    @@ (3 :> Obj("ClipVisionConfig", [depth |-> Val("12")]))
ChainConfig ==
    (1 :> Obj("OuterConfig", [child |-> Ref(2)]))
    @@ (2 :> Obj("MiddleConfig", [child |-> Ref(3),
                                  extra |-> Dict([type |-> Val("plain"), n |-> Val("1")])]))
    @@ (3 :> Obj("InnerConfig", [leaf |-> None]))
SharedConfig ==
    (1 :> Obj("PairConfig", [left |-> Ref(2), right |-> Ref(2)]))
    @@ (2 :> Obj("BertConfig", [seq_length |-> Val("128")]))
CyclicConfig ==
    (1 :> Obj("ParentConfig", [child |-> Ref(2)]))
    @@ (2 :> Obj("ChildConfig", [parent |-> Ref(1)]))

WalkInputs ==
    { [objs |-> g, root |-> Ref(1)] :
        g \in {FlatConfig, TreeConfig, ChainConfig, SharedConfig, CyclicConfig} }
    \cup { [objs |-> FlatConfig, root |-> v] :
             v \in {Val("cfg.yaml"), None, Dict([type |-> Val("plain")])} }

\* isinstance(config, BaseConfig)  (auto_class.py:200)
is_config(value) == value.k = "ref"

\* mutant: the recursion is called on the config itself
loop_arg_self(config, val) == config
\* cls._inverse_parse_config(val)  (auto_class.py:207)
loop_arg(config, val) == val

\* return value: the innermost frame ends; the caller's loop writes the value back
\* under the key it is at (auto_class.py:208) and goes on, or the conversion is over
returned(w, value) ==
    LET n == Len(w.stack) IN
    IF n = 1
    THEN [w EXCEPT !.stack = <<>>, !.ret = [kind |-> "return", value |-> value]]
    ELSE LET caller == w.stack[n - 1]
         IN  [w EXCEPT !.stack = Append(SubSeq(w.stack, 1, n - 2),
                                        [caller EXCEPT !.phase = "loop",
                                                       !.pending = @ \ {caller.key}]),
                       !.objs[caller.arg.id].items[caller.key] = value]

\* auto_class.py:200-204: a call begins
inverse_enter ==
    LET n == Len(walk.stack)
        top == walk.stack[n]
    IN  /\ n > 0
        /\ top.phase = "enter"
        /\ IF ~is_config(top.arg)
           THEN walk' = returned(walk, top.arg)
           ELSE LET tagged == tag(walk.objs[top.arg.id].items, walk.objs[top.arg.id].cls)
                IN  walk' = [walk EXCEPT !.visits[top.arg.id] = @ + 1,
                                         !.objs[top.arg.id].items = tagged,
                                         !.stack[n] = [top EXCEPT !.phase = "loop",
                                                                  !.pending = DOMAIN tagged]]
        /\ UNCHANGED <<fs, pc, call, loc, result, events, heap, name_table, snap, prev, ncalls,
                       nenv, support_list, origin, tools>>

\* auto_class.py:206-210: the loop takes its next key and recurses, or is over
inverse_loop ==
    LET n == Len(walk.stack)
        top == walk.stack[n]
    IN  /\ n > 0
        /\ top.phase = "loop"
        /\ IF top.pending = {}
           THEN walk' = returned(walk, top.arg)
           ELSE \E key \in top.pending :
                   IF n >= MaxDepth
                   THEN walk' = [walk EXCEPT !.stack = <<>>,
                                             !.ret = [kind |-> "raise", value |-> None]]
                   ELSE walk' = [walk EXCEPT
                            !.calls = @ + 1,
                            !.stack = Append([walk.stack EXCEPT ![n].phase = "wait",
                                                                ![n].key = key],
                                             Frame(loop_arg(top.arg,
                                                            walk.objs[top.arg.id].items[key])))]
        /\ UNCHANGED <<fs, pc, call, loc, result, events, heap, name_table, snap, prev, ncalls,
                       nenv, support_list, origin, tools>>

(***************************************************************************)
(* The caller and the world around the program.                            *)
(***************************************************************************)
\* the caller constructs a config object itself
NewConfigWith(p, limit) ==
    /\ pc[p] = "idle"
    /\ ncalls < limit
    /\ \E i \in (1..MaxObjs) \ DOMAIN heap[p] : \E c \in UserConfigs :
          /\ heap' = [heap EXCEPT ![p] = (i :> c) @@ @]
          /\ origin' = [origin EXCEPT ![p] = (i :> [Born("caller", None) EXCEPT !.serial = ncalls + 1]) @@ @]
    /\ ncalls' = ncalls + 1
    /\ UNCHANGED <<fs, pc, call, loc, result, events, name_table, snap, prev, nenv, support_list, walk, tools>>

\* the caller drops a config object; its identity may be given to a later one
NewConfig(p) == NewConfigWith(p, MaxCalls)

\* the caller drops a config object; its identity may be given to a later one
DropWith(p, limit) ==
    /\ pc[p] = "idle"
    /\ ncalls < limit
    /\ \E i \in DOMAIN heap[p] :
          /\ heap' = [heap EXCEPT ![p] = [j \in (DOMAIN @) \ {i} |-> @[j]]]
          /\ origin' = [origin EXCEPT ![p] = [j \in (DOMAIN @) \ {i} |-> @[j]]]
    /\ ncalls' = ncalls + 1
    /\ UNCHANGED <<fs, pc, call, loc, result, events, name_table, snap, prev, nenv, support_list, walk, tools>>

Drop(p) == DropWith(p, MaxCalls)

\* a release replaces the bundled template
EnvChangeTemplate ==
    LET default_yaml_file == default_yaml_file_of(bert_base_uncased)
    IN  /\ Quiet
        /\ nenv < MaxEnv
        /\ isfile(fs, default_yaml_file)
        /\ fs[default_yaml_file].content = BertYaml
        /\ fs' = [fs EXCEPT ![default_yaml_file].content = BertYamlV2]
        /\ nenv' = nenv + 1
        /\ UNCHANGED <<pc, call, loc, result, events, heap, name_table, snap, prev, ncalls, support_list, walk, origin, tools>>

\* a bundled template is missing from the package
EnvRemoveTemplate ==
    /\ Quiet
    /\ nenv < MaxEnv
    /\ \E s \in {bert_base_uncased, mae_vit_base_p16} :
          /\ exists(fs, default_yaml_file_of(s))
          /\ fs' = RemoveEntry(fs, default_yaml_file_of(s))
    /\ nenv' = nenv + 1
    /\ UNCHANGED <<pc, call, loc, result, events, heap, name_table, snap, prev, ncalls, support_list, walk, origin, tools>>

\* somebody deletes a cached config file by hand
EnvDeleteCache ==
    /\ Quiet
    /\ nenv < MaxEnv
    /\ \E s \in {bert_base_uncased, mae_vit_base_p16} :
          /\ exists(fs, yaml_file_of(s))
          /\ fs' = RemoveEntry(fs, yaml_file_of(s))
    /\ nenv' = nenv + 1
    /\ UNCHANGED <<pc, call, loc, result, events, heap, name_table, snap, prev, ncalls, support_list, walk, origin, tools>>

Step(p) ==
    \/ Call(p)
    \/ Finish(p)
    \/ NewConfig(p)
    \/ Drop(p)
    \/ CacheCheckDir(p)
    \/ CacheMakedirs(p)
    \/ CacheCheckYaml(p)
    \/ CacheCopy(p)
    \/ LoadConfig(p)
    \/ AutoConfig_from_pretrained(p)
    \/ AutoConfig_build(p)
    \/ AutoModel_from_pretrained(p)
    \/ AutoModel_build(p)
    \/ AutoModel_from_config(p)
    \/ AutoModel_from_config_build(p)
    \/ AutoProcessor_from_pretrained(p)
    \/ AutoProcessor_build(p)
    \/ AutoTokenizer_from_pretrained(p)
    \/ AutoTokenizer_get_class_name_from_yaml(p)
    \/ AutoTokenizer_class_name(p)
    \/ AutoTokenizer_get_class_name_from_tokenizer_config_file(p)
    \/ AutoTokenizer_build(p)
    \/ show_support_list(p)
    \/ get_support_list(p)

Next == (\E p \in Procs : Step(p)) \/ EnvChangeTemplate \/ EnvRemoveTemplate \/ EnvDeleteCache

Spec == Init /\ [][Next]_vars

\* two processes share the filesystem; each has its own objects and tables
InitRace == InitWith(Procs, {Installed, SavedTokenizer}) /\ walk = NoWalk /\ ToolsOff({})
SpecRace == InitRace /\ [][Next]_vars

\* one caller who makes config objects, drops them and passes them to from_config; the
\* longer sequences of operations are reached because little else is tried
ReuseChoices(p) ==
    { [entry |-> "AutoConfig", arg |-> StrArg(s)] : s \in {bert_base_uncased, mae_vit_base_p16} }
    \cup { [entry |-> "from_config", arg |-> CfgArg(i)] : i \in DOMAIN heap[p] }
CallReuse(p) == CallWith(p, MaxOps, ReuseChoices(p))
NewConfigReuse(p) == NewConfigWith(p, MaxOps)
DropReuse(p) == DropWith(p, MaxOps)
InitReuse == InitWith({"p1"}, {Installed}) /\ walk = NoWalk /\ ToolsOff({})
NextReuse ==
    \E p \in Procs :
        \/ CallReuse(p)
        \/ Finish(p)
        \/ NewConfigReuse(p)
        \/ DropReuse(p)
        \/ CacheCheckDir(p)
        \/ CacheMakedirs(p)
        \/ CacheCheckYaml(p)
        \/ CacheCopy(p)
        \/ LoadConfig(p)
        \/ AutoConfig_from_pretrained(p)
        \/ AutoConfig_build(p)
        \/ AutoModel_from_config(p)
        \/ AutoModel_from_config_build(p)
SpecReuse == InitReuse /\ [][NextReuse]_vars

\* _inverse_parse_config alone, on each of the config objects
InitInverse ==
    /\ InitWith({}, {Installed})
    /\ ToolsOff({})
    /\ \E input \in WalkInputs :
          walk = [input |-> input.objs, objs |-> input.objs, root |-> input.root,
                  stack |-> <<Frame(input.root)>>,
                  visits |-> [i \in DOMAIN input.objs |-> 0], calls |-> 1,
                  ret |-> [kind |-> "none", value |-> None]]
NextInverse == inverse_enter \/ inverse_loop
SpecInverse == InitInverse /\ [][NextInverse]_vars

(***************************************************************************)
(* xformer/tools/download_tools.py: downlond_with_progress_bar(url,        *)
(* filepath, chunk_size), statement by statement.  download.response is    *)
(* what the server answers, download.file the target file, download.log    *)
(* what the call has done so far.                                          *)
(***************************************************************************)
\* StatusCode.succeed
StatusCode_succeed == 200

\* int(text): the number a string of decimal digits denotes; anything else is a
\* ValueError
Digits == <<"0", "1", "2", "3", "4", "5", "6", "7", "8", "9">>
digit(c) == (CHOOSE i \in 1..10 : Digits[i] = c) - 1
is_int(text) == Len(text) > 0 /\ \A i \in 1..Len(text) : \E j \in 1..10 : Digits[j] = text[i]
RECURSIVE int(_)
int(text) ==
    IF Len(text) = 0 THEN 0
    ELSE 10 * int(SubSeq(text, 1, Len(text) - 1)) + digit(text[Len(text)])

\* the answers of the server: a status code, a content-length header or none, a body;
\* or no answer at all
Responses ==
    { [kind |-> "response", status_code |-> st, headers |-> h, body |-> b] :
        st \in {200, 404, 500},
        h \in { <<>>, [content_length |-> <<"3">>], [content_length |-> <<"0">>],
                [content_length |-> <<"1", "2">>], [content_length |-> <<"x">>] },
        b \in { <<>>, <<7>>, <<7, 8, 9>> } }
    \cup { [kind |-> "unreachable", status_code |-> 0, headers |-> <<>>, body |-> <<>>] }

\* the target file before the call: absent, or there with earlier data
FilesBefore == { [exists |-> FALSE, data |-> <<>>], [exists |-> TRUE, data |-> <<5, 5>>] }

\* the next chunk response.iter_content(chunk_size) yields
next_chunk(rest, chunk_size) ==
    SubSeq(rest, 1, IF Len(rest) < chunk_size THEN Len(rest) ELSE chunk_size)

\* mutant: every answer is taken for a success
status_ok_always(status_code) == TRUE
\* response.status_code == StatusCode.succeed  (download_tools.py:18)
status_ok(status_code) == status_code = StatusCode_succeed

download_end(kind, exc) == [download EXCEPT !.pc = "done", !.result = [kind |-> kind, exc |-> exc]]

\* response = requests.get(url, stream=True)  (download_tools.py:14)
downlond_get ==
    /\ download.pc = "get"
    /\ download' =
          IF download.response.kind = "unreachable"
          THEN [download_end("raise", "ConnectionError") EXCEPT
                    !.requests = @ + 1, !.log = Append(@, "get")]
          ELSE [download EXCEPT !.pc = "content_size", !.requests = @ + 1,
                                !.log = Append(@, "get")]
    /\ UNCHANGED <<auto, maker, cell, dataset>>

\* content_size = int(response.headers['content-length'])  (download_tools.py:16)
downlond_content_size ==
    LET headers == download.response.headers IN
    /\ download.pc = "content_size"
    /\ download' =
          IF "content_length" \notin DOMAIN headers
          THEN download_end("raise", "KeyError")
          ELSE IF ~is_int(headers["content_length"])
          THEN download_end("raise", "ValueError")
          ELSE [download EXCEPT !.pc = "status", !.content_size = int(headers["content_length"])]
    /\ UNCHANGED <<auto, maker, cell, dataset>>

\* if response.status_code == StatusCode.succeed: ... else: raise KeyError
\* (download_tools.py:18, 29-30)
downlond_status ==
    /\ download.pc = "status"
    /\ download' =
          IF status_ok(download.response.status_code)
          THEN [download EXCEPT !.pc = "open", !.log = Append(@, "status")]
          ELSE [download_end("raise", "KeyError") EXCEPT !.log = Append(@, "status")]
    /\ UNCHANGED <<auto, maker, cell, dataset>>

\* with open(filepath, 'wb') as file  (download_tools.py:20): the file is created, or
\* emptied
downlond_open ==
    /\ download.pc = "open"
    /\ download' = [download EXCEPT !.pc = "write",
                                    !.file = [exists |-> TRUE, data |-> <<>>],
                                    !.rest = download.response.body,
                                    !.log = Append(@, "open")]
    /\ UNCHANGED <<auto, maker, cell, dataset>>

\* for data in response.iter_content(chunk_size): file.write(data); size += len(data);
\* print(... size*50/content_size ...)  (download_tools.py:21-25), and the end of the
\* call (26-28)
downlond_write ==
    LET data == next_chunk(download.rest, download.chunk_size) IN
    /\ download.pc = "write"
    /\ download' =
          IF download.rest = <<>>
          THEN download_end("return", "")
          ELSE LET written == [download EXCEPT
                                  !.file.data = @ \o data,
                                  !.size = @ + Len(data),
                                  !.rest = SubSeq(@, Len(data) + 1, Len(@)),
                                  !.log = Append(@, "write")]
               IN  IF download.content_size = 0
                   THEN [written EXCEPT !.pc = "done",
                                        !.result = [kind |-> "raise", exc |-> "ZeroDivisionError"]]
                   ELSE written
    /\ UNCHANGED <<auto, maker, cell, dataset>>

InitDownload ==
    /\ InitWith({}, {Installed}) /\ walk = NoWalk
    /\ ToolsOff({"download"})
    /\ \E response \in Responses : \E before \in FilesBefore : \E chunk_size \in {1, 2} :
          download = [pc |-> "get", response |-> response, chunk_size |-> chunk_size,
                      before |-> before, file |-> before, requests |-> 0, content_size |-> 0,
                      size |-> 0, rest |-> <<>>, log |-> <<>>,
                      result |-> [kind |-> "none", exc |-> ""]]
NextDownload ==
    \/ downlond_get
    \/ downlond_content_size
    \/ downlond_status
    \/ downlond_open
    \/ downlond_write
SpecDownload == InitDownload /\ [][NextDownload]_vars

(***************************************************************************)
(* mindformers/tools/dataset_preprocess/bloom/make_mindrecord.py:          *)
(* AlpacaDatasetMaker.make_prompt_ids(prompt), statement by statement.     *)
(* The tokenizer is not part of the sources: what it returns for the text  *)
(* is an input, maker.input_ids.                                           *)
(***************************************************************************)
\* all sequences over a set of length at most n
RECURSIVE SeqsUpTo(_, _)
SeqsUpTo(S, n) ==
    IF n = 0 THEN {<<>>}
    ELSE SeqsUpTo(S, n - 1) \cup {Append(q, x) : q \in {r \in SeqsUpTo(S, n - 1) : Len(r) = n - 1}, x \in S}

\* the ids the tokenizer gives to words, and the two special ids of the maker
TokenIds == {11, 12}
eos_token_id == 2
pad_token_id == 3

\* [x] * n
RECURSIVE times(_, _)
times(x, n) == IF n <= 0 THEN <<>> ELSE <<x>> \o times(x, n - 1)

\* _add_eos_token_id (make_mindrecord.py:85-87)
_add_eos_token_id(prompt_ids, seq_length) ==
    IF Len(prompt_ids) < seq_length THEN Append(prompt_ids, eos_token_id) ELSE prompt_ids
\* mutant: the rest is filled with pad_token_id
_add_pad_token_id_pad(prompt_ids, seq_length) ==
    IF Len(prompt_ids) < seq_length
    THEN prompt_ids \o times(pad_token_id, seq_length - Len(prompt_ids))
    ELSE prompt_ids
\* _add_pad_token_id (make_mindrecord.py:89-93)
_add_pad_token_id(prompt_ids, seq_length) ==
    IF Len(prompt_ids) < seq_length
    THEN prompt_ids \o times(eos_token_id, seq_length - Len(prompt_ids))
    ELSE prompt_ids

\* make_mindrecord.py:72-77: the template is chosen and the text is tokenized
make_prompt_ids_tokenize ==
    /\ maker.pc = "tokenize"
    /\ maker' = [maker EXCEPT
                    !.pc = "truncate",
                    !.text = IF "input" \in maker.prompt THEN "prompt_with_input"
                             ELSE "prompt_without_input",
                    !.prompt_ids = maker.input_ids]
    /\ UNCHANGED <<auto, download, cell, dataset>>

\* make_mindrecord.py:78-79
make_prompt_ids_truncate ==
    /\ maker.pc = "truncate"
    /\ maker' = [maker EXCEPT
                    !.pc = "eos",
                    !.prompt_ids = IF Len(@) > maker.seq_length
                                   THEN SubSeq(@, 1, maker.seq_length) ELSE @]
    /\ UNCHANGED <<auto, download, cell, dataset>>

\* make_mindrecord.py:81
make_prompt_ids_eos ==
    /\ maker.pc = "eos"
    /\ maker' = [maker EXCEPT !.pc = "pad",
                              !.prompt_ids = _add_eos_token_id(@, maker.seq_length)]
    /\ UNCHANGED <<auto, download, cell, dataset>>

\* make_mindrecord.py:82-83
make_prompt_ids_pad ==
    /\ maker.pc = "pad"
    /\ maker' = [maker EXCEPT !.pc = "done",
                              !.prompt_ids = _add_pad_token_id(@, maker.seq_length),
                              !.returned = _add_pad_token_id(maker.prompt_ids, maker.seq_length)]
    /\ UNCHANGED <<auto, download, cell, dataset>>

InitMaker ==
    /\ InitWith({}, {Installed}) /\ walk = NoWalk
    /\ ToolsOff({"maker"})
    /\ \E input_ids \in SeqsUpTo(TokenIds, MaxIds) : \E seq_length \in 1..MaxSeqLength :
       \E prompt \in {{"instruction", "output"}, {"instruction", "input", "output"}} :
          maker = [pc |-> "tokenize", prompt |-> prompt, seq_length |-> seq_length,
                   input_ids |-> input_ids, text |-> "", prompt_ids |-> <<>>, returned |-> <<>>]
NextMaker ==
    \/ make_prompt_ids_tokenize
    \/ make_prompt_ids_truncate
    \/ make_prompt_ids_eos
    \/ make_prompt_ids_pad
SpecMaker == InitMaker /\ [][NextMaker]_vars

(***************************************************************************)
(* transformer/models/gpt/gpt_lm.py: one call of                           *)
(* GPT2FinetuneCell.construct(input_ids, input_mask, label_ids, sens).     *)
(* The network, the gradient operation, the float-status operators, the    *)
(* loss-scaling manager and the optimizer are not part of the sources:     *)
(* cell.loss, cell.status (the overflow status of each gradient on this    *)
(* device), cell.others (the flag sum of the other devices) and            *)
(* cell.manager_result (what the manager answers) are inputs.              *)
(***************************************************************************)
\* self.base = Tensor(1, mstype.float32)
base == 1

\* self.reduce_sum(init, (0,)): the sum of the status register  (gpt_lm.py:145)
RECURSIVE reduce_sum(_)
reduce_sum(status) == IF status = <<>> THEN 0 ELSE status[1] + reduce_sum(SubSeq(status, 2, Len(status)))

\* self.addn(flag_sum): the sum of the float status of every gradient
\* (gpt_lm.py:147-149)
RECURSIVE addn(_)
addn(flags) == IF flags = <<>> THEN 0 ELSE addn(SubSeq(flags, 1, Len(flags) - 1)) + flags[Len(flags)]

\* self.less_equal(self.base, flag)  (gpt_lm.py:152, 154)
less_equal(x, y) == x <= y

\* mutant: the optimizer is applied whatever the flag
not_overflow_always(overflow) == TRUE
\* if not overflow:  (gpt_lm.py:158)
not_overflow(overflow) == ~overflow

\* gpt_lm.py:117-125: the loss, and the sens the gradients are scaled with
construct_loss ==
    /\ cell.pc = "loss"
    /\ cell' = [cell EXCEPT
                  !.pc = "grads",
                  !.scaling_sens = IF cell.sens = "None"
                                   THEN (IF cell.scale_update_cell = "None" THEN "None"
                                         ELSE "loss_scale")
                                   ELSE "sens"]
    /\ UNCHANGED <<auto, download, maker, dataset>>

\* gpt_lm.py:127-140: the gradients; without a sens and without a loss scale there is
\* nothing to scale them with and the call fails
construct_grads ==
    /\ cell.pc = "grads"
    /\ cell' = IF cell.scaling_sens = "None"
               THEN [cell EXCEPT !.pc = "done", !.result = [kind |-> "raise", value |-> <<>>]]
               ELSE [cell EXCEPT !.pc = "flag", !.grads = "computed"]
    /\ UNCHANGED <<auto, download, maker, dataset>>

\* gpt_lm.py:141-154: the flag sum of this device, of all devices when distributed,
\* and the condition
construct_cond ==
    LET flag_sum == IF cell.gpu_target THEN addn(cell.status) ELSE reduce_sum(cell.status)
        flag_reduce == flag_sum + cell.others
    IN  /\ cell.pc = "flag"
        /\ cell' = [cell EXCEPT
                      !.pc = "overflow",
                      !.flag_sum = flag_sum,
                      !.cond = IF cell.is_distributed THEN less_equal(base, flag_reduce)
                               ELSE less_equal(base, flag_sum)]
        /\ UNCHANGED <<auto, download, maker, dataset>>

\* gpt_lm.py:155-157
construct_overflow ==
    /\ cell.pc = "overflow"
    /\ cell' = [cell EXCEPT
                  !.pc = "optimizer",
                  !.overflow = IF cell.sens = "None" THEN cell.manager_result ELSE cell.cond]
    /\ UNCHANGED <<auto, download, maker, dataset>>

\* gpt_lm.py:158-160
construct_optimizer ==
    /\ cell.pc = "optimizer"
    /\ cell' = [cell EXCEPT
                  !.pc = "done",
                  !.weights = IF not_overflow(cell.overflow) THEN @ + 1 ELSE @,
                  !.applied = IF not_overflow(cell.overflow) THEN @ + 1 ELSE @,
                  !.result = [kind |-> "return", value |-> <<cell.loss, cell.cond>>]]
    /\ UNCHANGED <<auto, download, maker, dataset>>

InitCell ==
    /\ InitWith({}, {Installed}) /\ walk = NoWalk
    /\ ToolsOff({"cell"})
    /\ \E sens \in {"None", "given"} : \E scale_update_cell \in {"None", "manager"} :
       \E is_distributed \in BOOLEAN : \E gpu_target \in BOOLEAN :
       \E status \in {<<0, 0>>, <<0, 1>>, <<1, 1>>} : \E others \in {0, 1} :
       \E manager_result \in BOOLEAN : \E loss \in {3, 4} :
          /\ (~is_distributed) => others = 0
          /\ (scale_update_cell = "None" \/ sens = "given") => manager_result = FALSE
          /\ cell = [pc |-> "loss", sens |-> sens, scale_update_cell |-> scale_update_cell,
                     is_distributed |-> is_distributed, gpu_target |-> gpu_target,
                     status |-> status, others |-> others, manager_result |-> manager_result,
                     loss |-> loss, weights |-> 0, scaling_sens |-> "", grads |-> "",
                     flag_sum |-> 0, cond |-> FALSE, overflow |-> FALSE, applied |-> 0,
                     result |-> [kind |-> "none", value |-> <<>>]]
NextCell ==
    \/ construct_loss
    \/ construct_grads
    \/ construct_cond
    \/ construct_overflow
    \/ construct_optimizer
SpecCell == InitCell /\ [][NextCell]_vars

(***************************************************************************)
(* mindformers/dataset/keyword_gen_dataset.py: KeyWordGenDataset(          *)
(* dataset_config), statement by statement.  dataset.objs are the config   *)
(* objects: "caller" is the data_loader configuration of the caller's      *)
(* dataset_config, "copy" the one of the deep copy; dataset.local says     *)
(* which of them the method's variable dataset_config refers to.           *)
(* build_tokenizer, build_dataset_loader and the dataset operations are    *)
(* not part of the sources.                                                *)
(***************************************************************************)
\* the data_loader configurations the caller passes
DataLoaders ==
    { [type |-> t, phase |-> ph] @@ dir @@ files :
        t \in {"MindDataset", "ADGenDataLoader"}, ph \in {"train", "eval"},
        dir \in { <<>>, [dataset_dir |-> ""], [dataset_dir |-> "/data"],
                  [dataset_dir |-> "/data/a.mindrecord"], [dataset_dir |-> "/data/b.txt"] },
        files \in { <<>>, [dataset_files |-> <<"/data/a.mindrecord">>] } }

\* os.path.isdir, and the ".mindrecord" files os.walk finds, sorted
data_isdir(path) == path = "/data"
data_walk(path) == IF path = "/data" THEN <<"/data/a.mindrecord">> ELSE <<>>
data_endswith_mindrecord(path) == path = "/data/a.mindrecord"

\* dict.pop(key) of a key that is there
popped(d, key) == [k \in (DOMAIN d) \ {key} |-> d[k]]

dataset_end(kind, exc, value) ==
    [dataset EXCEPT !.pc = "idle", !.local = "caller",
                    !.results = Append(@, [kind |-> kind, exc |-> exc, value |-> value])]

\* the caller constructs a dataset from its dataset_config
KeyWordGenDataset_call ==
    /\ dataset.pc = "idle"
    /\ Len(dataset.results) < MaxConstructs
    /\ dataset' = [dataset EXCEPT !.pc = "new", !.local = "caller"]
    /\ UNCHANGED <<auto, download, maker, cell>>

\* keyword_gen_dataset.py:48-61
KeyWordGenDataset_new ==
    /\ dataset.pc = "new"
    /\ dataset' = [dataset EXCEPT
                     !.phase = dataset.objs["caller"]["phase"],
                     !.pc = IF dataset.objs["caller"]["type"] # "MindDataset"
                            THEN "raw_text" ELSE "mindrecord"]
    /\ UNCHANGED <<auto, download, maker, cell>>

\* _process_raw_text_data (keyword_gen_dataset.py:111-119)
KeyWordGenDataset_process_raw_text_data ==
    LET target == dataset.local
        data_loader == dataset.objs[target]
    IN  /\ dataset.pc = "raw_text"
        /\ dataset' =
              IF "dataset_dir" \notin DOMAIN data_loader
              THEN dataset_end("raise", "KeyError", <<>>)
              ELSE [dataset EXCEPT
                       !.objs = (target :> popped(data_loader, "dataset_dir")) @@ @,
                       !.built = [loader |-> popped(data_loader, "dataset_dir"),
                                  default_args |-> [dataset_dir |-> <<data_loader["dataset_dir"]>>]],
                       !.pc = "batch"]
        /\ UNCHANGED <<auto, download, maker, cell>>

\* _process_mindrecord_data: dataset_config = copy.deepcopy(dataset_config)
\* (keyword_gen_dataset.py:124-126)
KeyWordGenDataset_process_mindrecord_data_copy ==
    /\ dataset.pc = "mindrecord"
    /\ dataset' = [dataset EXCEPT
                     !.objs = ("copy" :> dataset.objs[dataset.local]) @@ @,
                     !.local = "copy",
                     !.pc = "mindrecord_files"]
    /\ UNCHANGED <<auto, download, maker, cell>>

\* _process_mindrecord_data (keyword_gen_dataset.py:128-153)
KeyWordGenDataset_process_mindrecord_data ==
    LET data_loader == dataset.objs[dataset.local]
        has_dir == "dataset_dir" \in DOMAIN data_loader /\ data_loader["dataset_dir"] # ""
        has_files == "dataset_files" \in DOMAIN data_loader /\ data_loader["dataset_files"] # <<>>
        data_dir == data_loader["dataset_dir"]
    IN  /\ dataset.pc = "mindrecord_files"
        /\ dataset' =
              IF has_dir
              THEN [dataset EXCEPT
                       !.objs = (dataset.local :> popped(data_loader, "dataset_dir")) @@ @,
                       !.built = [loader |-> popped(data_loader, "dataset_dir"),
                                  default_args |->
                                      [dataset_files |->
                                          IF data_isdir(data_dir) THEN data_walk(data_dir)
                                          ELSE IF data_endswith_mindrecord(data_dir)
                                          THEN <<data_dir>> ELSE <<>>]],
                       !.pc = "batch"]
              ELSE IF has_files
              THEN [dataset EXCEPT
                       !.built = [loader |-> data_loader,
                                  default_args |-> [dataset_files |-> data_loader["dataset_files"]]],
                       !.pc = "batch"]
              ELSE dataset_end("raise", "ValueError", <<>>)
        /\ UNCHANGED <<auto, download, maker, cell>>

\* keyword_gen_dataset.py:63-70
KeyWordGenDataset_batch ==
    /\ dataset.pc = "batch"
    /\ dataset' = dataset_end("return", "", dataset.built)
    /\ UNCHANGED <<auto, download, maker, cell>>

InitDataset ==
    /\ InitWith({}, {Installed}) /\ walk = NoWalk
    /\ ToolsOff({"dataset"})
    /\ \E data_loader \in DataLoaders :
          dataset = [pc |-> "idle", given |-> data_loader, objs |-> [caller |-> data_loader],
                     local |-> "caller", phase |-> "", built |-> <<>>, results |-> <<>>]
NextDataset ==
    \/ KeyWordGenDataset_call
    \/ KeyWordGenDataset_new
    \/ KeyWordGenDataset_process_raw_text_data
    \/ KeyWordGenDataset_process_mindrecord_data_copy
    \/ KeyWordGenDataset_process_mindrecord_data
    \/ KeyWordGenDataset_batch
SpecDataset == InitDataset /\ [][NextDataset]_vars

(***************************************************************************)
(* The vocabulary of the properties, stated apart from the code's own      *)
(* computations.                                                           *)
(***************************************************************************)
\* the family of a bare name: what precedes its first '_'
Family(s) ==
    CHOOSE pre \in {SubSeq(s, 1, n) : n \in 0..Len(s)} :
        /\ \A i \in 1..Len(pre) : pre[i] # "_"
        /\ Len(pre) = Len(s) \/ s[Len(pre) + 1] = "_"

\* cache-root/f, cache-root/f/id.yaml and configs/f/model_config/id.yaml
CacheDir(s) == <<checkpoint_download, Family(s)>>
CacheFile(s) == <<checkpoint_download, Family(s), s \o dot_yaml>>
Template(s) == <<project, configs, Family(s), model_config, s \o dot_yaml>>

SupportListOf(entry) ==
    CASE entry = "AutoConfig" -> AutoConfig_support_list
      [] entry = "AutoModel" -> AutoModel_support_list
      [] entry = "AutoProcessor" -> AutoProcessor_support_list
      [] entry = "AutoTokenizer" -> AutoTokenizer_support_list

\* the family is a key of the entry point's SupportList and the name is listed under it
Listed(entry, s) ==
    /\ Family(s) \in DOMAIN SupportListOf(entry)
    /\ \E i \in 1..Len(SupportListOf(entry)[Family(s)]) : SupportListOf(entry)[Family(s)][i] = s

Done(p) == pc[p] = "done"
Has(p, ev) == \E i \in 1..Len(events[p]) : events[p][i] = ev
Count(p, ev) == Cardinality({i \in 1..Len(events[p]) : events[p][i] = ev})
Raised(p, exc, err) ==
    result[p].kind = "raise" /\ result[p].exc = exc /\ result[p].err = err
\* the string the call was given
ArgStr(p) == call[p].arg.s
\* the filesystem when the call began
Before(p) == snap[p].fs

(***************************************************************************)
(* C1                                                                      *)
(***************************************************************************)
\* a bare supported name that is no existing path and whose template is bundled
C1_Pre(p) ==
    /\ call[p].entry \in {"AutoConfig", "AutoModel", "AutoProcessor"}
    /\ call[p].arg.t = "str"
    /\ PathOf(ArgStr(p)) \notin DOMAIN Before(p)
    /\ Listed(call[p].entry, ArgStr(p))
    /\ Template(ArgStr(p)) \in DOMAIN Before(p)

\* C1 (as amended): resolving a supported bare name creates cache-root/f exactly
\* when it was absent, copies the bundled template exactly when no cached file
\* existed, and loads the configuration from cache-root/f/id.yaml; after the call
\* the cached file exists, with the template's content if the call copied it and
\* with its previous content otherwise.
C1_ResolveBareName ==
    \A p \in Procs :
        LET s == ArgStr(p) IN
        /\ (Done(p) /\ C1_Pre(p)) =>
              /\ isdir(fs, CacheDir(s))
              /\ Has(p, "mkdir") <=> (CacheDir(s) \notin DOMAIN Before(p))
              /\ Has(p, "copy") <=> (CacheFile(s) \notin DOMAIN Before(p))
              /\ Count(p, "load") = 1
              /\ loc[p].yaml_file = CacheFile(s)
              /\ isfile(fs, CacheFile(s))
              /\ fs[CacheFile(s)].content =
                    IF CacheFile(s) \in DOMAIN Before(p)
                    THEN Before(p)[CacheFile(s)].content
                    ELSE Before(p)[Template(s)].content
        /\ (pc[p] \in {"AutoConfig_build", "AutoModel_build", "AutoProcessor_build"} /\ C1_Pre(p)) =>
              loc[p].config_args = fs[CacheFile(s)].content

\* C1 as stated: after the call the cached file has the template's content
C1_Original ==
    \A p \in Procs :
        (Done(p) /\ C1_Pre(p)) =>
            /\ isfile(fs, CacheFile(ArgStr(p)))
            /\ fs[CacheFile(ArgStr(p))].content = fs[Template(ArgStr(p))].content

\* a first resolution: the call created the directory and copied the template
C1_Witness ==
    \E p \in Procs :
        /\ Done(p) /\ C1_Pre(p)
        /\ Has(p, "mkdir") /\ Has(p, "copy")
        /\ result[p].kind = "return"

(***************************************************************************)
(* C2                                                                      *)
(***************************************************************************)
\* the call resolves, through the cache, the name the previous call resolved, and
\* nothing outside the program touched the filesystem in between
C2_Pre(p) ==
    /\ Done(p)
    /\ call[p].arg.t = "str"
    /\ loc[p].branch = "cache"
    /\ prev.valid
    /\ prev.s = ArgStr(p)
    /\ prev.nenv = nenv

\* C2: resolving the same supported bare name twice in sequence, with no external
\* change of the filesystem in between, yields the same cached config path both
\* times, and the second call creates no directory and copies no template.
C2_Idempotent ==
    \A p \in Procs :
        C2_Pre(p) =>
            /\ Has(p, "CacheResolved")
            /\ loc[p].yaml_file = prev.yaml_file
            /\ ~Has(p, "mkdir")
            /\ ~Has(p, "copy")

C2_Witness == \E p \in Procs : C2_Pre(p) /\ Has(p, "CacheResolved")

(***************************************************************************)
(* C3                                                                      *)
(***************************************************************************)
\* the string ends in ".yaml"
EndsInYaml(s) ==
    /\ Len(s) >= Len(dot_yaml)
    /\ \A i \in 1..Len(dot_yaml) : s[Len(s) - Len(dot_yaml) + i] = dot_yaml[i]

C3_Pre(p) ==
    /\ Done(p)
    /\ call[p].entry = "AutoConfig"
    /\ call[p].arg.t = "str"
    /\ PathOf(ArgStr(p)) \in DOMAIN Before(p)
    /\ ~EndsInYaml(ArgStr(p))

\* C3: AutoConfig.from_pretrained on an existing path that does not end in ".yaml"
\* fails with InvalidArgument (ValueError) before any configuration is loaded, and
\* changes neither the filesystem (the cache directory) nor the side table.
C3_BadExtension ==
    \A p \in Procs :
        C3_Pre(p) =>
            /\ Raised(p, "ValueError", "InvalidArgument")
            /\ ~Has(p, "load")
            /\ fs = Before(p)
            /\ name_table[p] = snap[p].name_table

C3_Witness == \E p \in Procs : C3_Pre(p)

(***************************************************************************)
(* C4                                                                      *)
(***************************************************************************)
C4_Pre(p) ==
    /\ Done(p)
    /\ call[p].entry \in {"AutoConfig", "AutoModel", "AutoProcessor"}
    /\ call[p].arg.t = "str"
    /\ PathOf(ArgStr(p)) \notin DOMAIN Before(p)
    /\ ~Listed(call[p].entry, ArgStr(p))

\* C4: for a string that is no existing path and whose family is not a SupportList
\* key or which is not listed under its family, AutoConfig, AutoModel and
\* AutoProcessor.from_pretrained fail with UnsupportedIdentifier (ValueError), and
\* no directory is created and no file copied before the failure.
C4_Unsupported ==
    \A p \in Procs :
        C4_Pre(p) =>
            /\ Raised(p, "ValueError", "UnsupportedIdentifier")
            /\ ~Has(p, "mkdir")
            /\ ~Has(p, "copy")
            /\ fs = Before(p)

\* a name whose family is supported while the name itself is not listed
C4_Witness ==
    \E p \in Procs :
        /\ C4_Pre(p)
        /\ Family(ArgStr(p)) \in DOMAIN SupportListOf(call[p].entry)

(***************************************************************************)
(* C5                                                                      *)
(***************************************************************************)
C5_Pre(p) ==
    /\ Done(p)
    /\ call[p].entry = "AutoTokenizer"
    /\ call[p].arg.t = "str"
    /\ \A f \in DOMAIN AutoTokenizer_support_list :
          \A i \in 1..Len(AutoTokenizer_support_list[f]) :
              AutoTokenizer_support_list[f][i] # ArgStr(p)
    /\ ~isdir(Before(p), PathOf(ArgStr(p)))

\* C5: AutoTokenizer.from_pretrained on a string that is not in the tokenizer
\* SupportList and is not an existing directory fails with UnsupportedIdentifier
\* (the ValueError the other entry points raise) and changes no file.
C5_TokenizerUnsupported ==
    \A p \in Procs :
        C5_Pre(p) =>
            /\ Raised(p, "ValueError", "UnsupportedIdentifier")
            /\ fs = Before(p)

(***************************************************************************)
(* C6                                                                      *)
(***************************************************************************)
\* the config object the caller passed to from_config, as it was when the call began
C6_cfg(p) == snap[p].heap[call[p].arg.id]

\* from_config was given a config object and has wrapped it
C6_Pre(p) ==
    /\ pc[p] = "from_config_build"
    /\ call[p].arg.t = "BaseConfig"

\* the name the wrapped tree carries as architecture: the object's model_name if it
\* has one, else the side table's entry for the object, else nothing
C6_ArchName(p) ==
    IF "model_name" \in DOMAIN C6_cfg(p).items /\ C6_cfg(p).items["model_name"] # None
    THEN C6_cfg(p).items["model_name"]
    ELSE IF call[p].arg.id \in DOMAIN snap[p].name_table
    THEN snap[p].name_table[call[p].arg.id]
    ELSE None

C6_Shape(tree) ==
    /\ tree.k = "cfg" /\ DOMAIN tree.items = {"model"}
    /\ tree.items["model"].k = "cfg"
    /\ DOMAIN tree.items["model"].items = {"model_config", "arch"}
    /\ tree.items["model"].items["arch"].k = "cfg"
    /\ DOMAIN tree.items["model"].items["arch"].items = {"type"}

\* C6 (as amended): _wrap_config(_inverse_parse_config(cfg)) has the shape
\* {model: {model_config, arch: {type}}}; model.model_config carries a type key equal
\* to cfg's original class name, and model.arch.type is cfg's model_name if it has
\* one, else the side table's name for cfg (the architecture name, not the class name).
C6_RoundTrip ==
    \A p \in Procs :
        C6_Pre(p) =>
            LET model == loc[p].config_args.items["model"] IN
            /\ C6_Shape(loc[p].config_args)
            /\ get(model.items["model_config"].items, "type") = Val(C6_cfg(p).cls)
            /\ model.items["arch"].items["type"] = C6_ArchName(p)

\* C6 as stated: model.arch.type equals cfg's original class name
C6_Original ==
    \A p \in Procs :
        C6_Pre(p) =>
            /\ C6_Shape(loc[p].config_args)
            /\ loc[p].config_args.items["model"].items["arch"].items["type"] = Val(C6_cfg(p).cls)

\* a config object made by AutoConfig: its architecture name comes from the side table
C6_Witness ==
    \E p \in Procs :
        /\ C6_Pre(p)
        /\ call[p].arg.id \in DOMAIN snap[p].name_table
        /\ "model_name" \notin DOMAIN C6_cfg(p).items
        /\ loc[p].config_args.items["model"].items["arch"].items["type"] # None

(***************************************************************************)
(* C7                                                                      *)
(***************************************************************************)
C7_Marks == {"Resolving", "DirectoryResolved", "CacheResolved", "ConfigLoaded", "Built"}

\* the states a call has passed through, in order
C7_Phases(p) == SelectSeq(events[p], LAMBDA ev : ev \in C7_Marks)

C7_IsPrefix(s, t) == Len(s) <= Len(t) /\ \A i \in 1..Len(s) : s[i] = t[i]

\* Resolving -> one of the two resolutions -> ConfigLoaded -> Built
C7_Paths ==
    { <<"Resolving", how, "ConfigLoaded", "Built">> : how \in {"DirectoryResolved", "CacheResolved"} }

\* the failure state a raised error is, in the words of the state machine: a missing
\* default template counts as NotFound there
C7_Failure(p) ==
    IF result[p].err = "MissingDefault" THEN "NotFound" ELSE result[p].err

C7_Ordered(p) ==
    /\ \E path \in C7_Paths : C7_IsPrefix(C7_Phases(p), path)
    /\ ~(Has(p, "DirectoryResolved") /\ Has(p, "CacheResolved"))
    /\ Has(p, "Built") => Has(p, "ConfigLoaded")

\* what each failure state means
C7_FailureCases(p) ==
    LET path == PathOf(ArgStr(p)) IN
    /\ C7_Failure(p) = "InvalidArgument" <=>
          \/ call[p].arg.t # "str"
          \/ path \in DOMAIN Before(p) /\ ~isdir(Before(p), path)
    /\ C7_Failure(p) = "UnsupportedIdentifier" <=>
          /\ call[p].arg.t = "str"
          /\ path \notin DOMAIN Before(p)
          /\ ~Listed("AutoModel", ArgStr(p))
    /\ C7_Failure(p) = "NotFound" =>
          /\ C7_Phases(p) = <<"Resolving">>
          /\ \/ isdir(Before(p), path)
             \/ Template(ArgStr(p)) \notin DOMAIN Before(p)
    /\ C7_Failure(p) = "ParseError" =>
          /\ Len(C7_Phases(p)) = 2
          /\ ~Has(p, "ConfigLoaded")
    /\ C7_Failure(p) = "UnregisteredType" =>
          /\ Len(C7_Phases(p)) = 3
          /\ Has(p, "ConfigLoaded")

\* C7 (as amended): every AutoModel.from_pretrained call moves Unresolved ->
\* Resolving -> exactly one of {Directory-resolved, Cache-resolved} -> ConfigLoaded
\* -> Built, or stops in exactly one terminal failure state among InvalidArgument,
\* NotFound, UnsupportedIdentifier, ParseError (the resolved file is malformed) and
\* UnregisteredType (no model class is registered under model.arch.type); Built is
\* never reached without ConfigLoaded, the two resolutions never both occur, and a
\* call returns exactly when it reached Built.
C7_StateMachine ==
    \A p \in Procs :
        call[p].entry = "AutoModel" =>
            /\ C7_Ordered(p)
            /\ Done(p) =>
                  /\ result[p].kind = "return" <=> Has(p, "Built")
                  /\ result[p].kind = "raise" =>
                        /\ C7_Failure(p) \in {"InvalidArgument", "NotFound", "UnsupportedIdentifier",
                                              "ParseError", "UnregisteredType"}
                        /\ C7_FailureCases(p)

\* C7 as stated: a call that does not reach Built stops in InvalidArgument, NotFound
\* or UnsupportedIdentifier
C7_Original ==
    \A p \in Procs :
        (call[p].entry = "AutoModel" /\ Done(p)) =>
            /\ C7_Ordered(p)
            /\ \/ Has(p, "Built")
               \/ C7_Failure(p) \in {"InvalidArgument", "NotFound", "UnsupportedIdentifier"}

\* a call that went through the cache to a built model
C7_Witness ==
    \E p \in Procs :
        /\ call[p].entry = "AutoModel" /\ Done(p)
        /\ C7_Phases(p) = <<"Resolving", "CacheResolved", "ConfigLoaded", "Built">>

\* a call that went through a directory to a built model
C7_WitnessDir ==
    \E p \in Procs :
        /\ call[p].entry = "AutoModel" /\ Done(p)
        /\ C7_Phases(p) = <<"Resolving", "DirectoryResolved", "ConfigLoaded", "Built">>

(***************************************************************************)
(* C8                                                                      *)
(***************************************************************************)
C8_Steps == {"mkdir", "copy", "load", "lookup", "build"}

\* a call of one of the four entry points (from_config included) is under way or over
C8_Pre(p) == call[p].entry \in Entries

\* C8: every from_pretrained and from_config call ends either with one fully built
\* instance returned or with one error raised and nothing returned; the first failing
\* step ends the call, and no step (directory creation, template copy, config load,
\* registry lookup, build) is attempted more than once within a call.
C8_AllOrNothing ==
    \A p \in Procs :
        C8_Pre(p) =>
            /\ \A step \in C8_Steps : Count(p, step) <= 1
            /\ result[p].kind # "none" <=> Done(p)
            /\ result[p].kind = "raise" =>
                  /\ result[p].value = None
                  /\ result[p].exc # ""
                  /\ ~Has(p, "build") /\ ~Has(p, "Built")
            /\ result[p].kind = "return" =>
                  /\ result[p].value # None
                  /\ result[p].exc = ""
                  /\ Count(p, "build") = 1
                  /\ events[p][Len(events[p])] = "Built"

\* a call that failed after it had loaded a configuration
C8_Witness ==
    \E p \in Procs :
        /\ C8_Pre(p) /\ Done(p)
        /\ result[p].kind = "raise"
        /\ Has(p, "load")

(***************************************************************************)
(* C9                                                                      *)
(***************************************************************************)
\* a supported bare name with neither a cached file nor a bundled template
C9_Pre(p) ==
    /\ Done(p)
    /\ call[p].entry \in FromPretrained
    /\ call[p].arg.t = "str"
    /\ PathOf(ArgStr(p)) \notin DOMAIN Before(p)
    /\ Listed(call[p].entry, ArgStr(p))
    /\ CacheFile(ArgStr(p)) \notin DOMAIN Before(p)
    /\ Template(ArgStr(p)) \notin DOMAIN Before(p)

\* path is dir or one of the directories above it
C9_Above(path, dir) == Len(path) <= Len(dir) /\ \A i \in 1..Len(path) : path[i] = dir[i]

\* C9: when a supported bare name is resolved, no cached config file exists and the
\* bundled template is absent, the call fails with MissingDefault (FileNotFoundError),
\* no cached config file is created, and the cache directory cache-root/family the
\* call created before the failure still exists afterwards (no rollback).
C9_MissingDefault ==
    \A p \in Procs :
        C9_Pre(p) =>
            LET s == ArgStr(p) IN
            /\ Raised(p, "FileNotFoundError", "MissingDefault")
            /\ ~Has(p, "copy") /\ ~Has(p, "load")
            /\ CacheFile(s) \notin DOMAIN fs
            /\ isdir(fs, CacheDir(s))
            /\ Has(p, "mkdir") <=> (CacheDir(s) \notin DOMAIN Before(p))
            /\ \A path \in DOMAIN fs :
                  IF path \in DOMAIN Before(p)
                  THEN fs[path].content = Before(p)[path].content
                  ELSE C9_Above(path, CacheDir(s))
            /\ \A path \in DOMAIN Before(p) : path \in DOMAIN fs

\* the call created the cache directory and then failed
C9_Witness ==
    \E p \in Procs :
        /\ C9_Pre(p)
        /\ Has(p, "mkdir")
        /\ CacheDir(ArgStr(p)) \notin DOMAIN Before(p)
        /\ isdir(fs, CacheDir(ArgStr(p)))

(***************************************************************************)
(* C10                                                                     *)
(***************************************************************************)
\* AutoModel.from_pretrained was given an existing directory
C10_Pre(p) ==
    /\ Done(p)
    /\ call[p].entry = "AutoModel"
    /\ call[p].arg.t = "str"
    /\ isdir(Before(p), PathOf(ArgStr(p)))

\* the directory's listing, and the positions in it of the names with a suffix
C10_Listing(p) == Before(p)[PathOf(ArgStr(p))].list
C10_Ends(name, suffix) ==
    /\ Len(name) >= Len(suffix)
    /\ SubSeq(name, Len(name) - Len(suffix) + 1, Len(name)) = suffix
C10_At(p, suffix) == {i \in 1..Len(C10_Listing(p)) : C10_Ends(C10_Listing(p)[i], suffix)}
\* the first such name in listing order
C10_First(p, suffix) ==
    C10_Listing(p)[CHOOSE i \in C10_At(p, suffix) : \A j \in C10_At(p, suffix) : i <= j]

\* C10: AutoModel.from_pretrained on an existing directory fails with NotFound
\* (FileNotFoundError) whenever the directory holds no ".yaml" file or no ".ckpt"
\* file, and then loads and builds nothing; when both kinds are present it uses the
\* first ".yaml" and the first ".ckpt" in listing order, also when there are several.
C10_DirectoryScan ==
    \A p \in Procs :
        C10_Pre(p) =>
            IF C10_At(p, dot_yaml) = {} \/ C10_At(p, dot_ckpt) = {}
            THEN /\ Raised(p, "FileNotFoundError", "NotFound")
                 /\ ~Has(p, "load") /\ ~Has(p, "lookup") /\ ~Has(p, "build")
                 /\ fs = Before(p)
            ELSE /\ ~Raised(p, "FileNotFoundError", "NotFound")
                 /\ Has(p, "DirectoryResolved")
                 /\ Count(p, "load") = 1
                 /\ loc[p].yaml_file = PathOf(ArgStr(p)) \o <<C10_First(p, dot_yaml)>>
                 /\ loc[p].ckpt_file = PathOf(ArgStr(p)) \o <<C10_First(p, dot_ckpt)>>
                 /\ result[p].kind = "return" =>
                       result[p].value.config =
                           [Before(p)[loc[p].yaml_file].content.items["model"].items["model_config"]
                               EXCEPT !.items = [checkpoint_name_or_path |->
                                                    [k |-> "path", path |-> loc[p].ckpt_file]] @@ @]

\* a directory with several files of either kind
C10_Witness ==
    \E p \in Procs :
        /\ C10_Pre(p)
        /\ Cardinality(C10_At(p, dot_yaml)) > 1
        /\ Cardinality(C10_At(p, dot_ckpt)) > 1
        /\ Has(p, "load")

\* a directory with a ".yaml" file and no ".ckpt" file
C10_WitnessMissing ==
    \E p \in Procs :
        /\ C10_Pre(p)
        /\ C10_At(p, dot_yaml) # {}
        /\ C10_At(p, dot_ckpt) = {}

(***************************************************************************)
(* C11                                                                     *)
(***************************************************************************)
\* AutoTokenizer.from_pretrained was given an existing directory that holds neither
\* a ".yaml" file nor tokenizer_config.json
C11_Pre(p) ==
    /\ Done(p)
    /\ call[p].entry = "AutoTokenizer"
    /\ call[p].arg.t = "str"
    /\ isdir(Before(p), PathOf(ArgStr(p)))
    /\ C10_At(p, dot_yaml) = {}
    /\ \A i \in 1..Len(C10_Listing(p)) : C10_Listing(p)[i] # tokenizer_config_json

\* C11: AutoTokenizer.from_pretrained on an existing directory that contains no
\* ".yaml" file and no tokenizer_config.json fails with NotFound (FileNotFoundError)
\* and performs no registry lookup and no tokenizer construction.
C11_TokenizerEmptyDir ==
    \A p \in Procs :
        C11_Pre(p) =>
            /\ Raised(p, "FileNotFoundError", "NotFound")
            /\ ~Has(p, "lookup") /\ ~Has(p, "build")

\* the same, for directories whose name is not in the tokenizer SupportList
C11_Unlisted ==
    \A p \in Procs :
        (C11_Pre(p) /\ ~Listed("AutoTokenizer", ArgStr(p))) =>
            /\ Raised(p, "FileNotFoundError", "NotFound")
            /\ ~Has(p, "lookup") /\ ~Has(p, "build")
            /\ fs = Before(p)

(***************************************************************************)
(* C12                                                                     *)
(***************************************************************************)
\* the tokenizer type a config tree supplies: processor.tokenizer.type, if all there
C12_TreeType(tree) ==
    LET processor == get(tree.items, "processor")
        tokenizer == IF processor.k = "dict" THEN get(processor.items, "tokenizer") ELSE None
    IN  IF tokenizer.k = "dict" THEN get(tokenizer.items, "type") ELSE None

\* the directory the configuration file was found in
C12_Dir(p) == IF loc[p].branch = "dir" THEN PathOf(ArgStr(p)) ELSE CacheDir(ArgStr(p))
C12_Sibling(p) == C12_Dir(p) \o <<tokenizer_config_json>>

\* a tokenizer call whose configuration tree was obtained and supplies no type
C12_Pre(p) ==
    /\ Done(p)
    /\ call[p].entry = "AutoTokenizer"
    /\ call[p].arg.t = "str"
    /\ Has(p, "ConfigLoaded")
    /\ C12_TreeType(loc[p].config_args) = None

C12_FellBack(p) ==
    IF C12_Sibling(p) \notin DOMAIN Before(p)
    THEN Raised(p, "FileNotFoundError", "NotFound")
    ELSE IF get(Before(p)[C12_Sibling(p)].content.items, "tokenizer_class") = None
    THEN Raised(p, "ValueError", "MissingField")
    ELSE loc[p].class_name = Before(p)[C12_Sibling(p)].content.items["tokenizer_class"]

\* C12: tokenizer resolution falls back to the sibling tokenizer_config.json whenever
\* the config tree supplies no tokenizer type: the type name is then that file's
\* tokenizer_class value, the call fails with NotFound if the file is absent and with
\* MissingField if it has no tokenizer_class key; this for an existing directory and
\* for a supported bare name resolved through the cache alike.
C12_Fallback == \A p \in Procs : C12_Pre(p) => C12_FellBack(p)

\* the same, for directories only
C12_DirectoryFallback ==
    \A p \in Procs : (C12_Pre(p) /\ loc[p].branch = "dir") => C12_FellBack(p)

(***************************************************************************)
(* C13                                                                     *)
(***************************************************************************)
\* the module type an entry point builds for, and the type name it hands to the
\* registry
C13_ModuleType(p) ==
    CASE call[p].entry = "AutoTokenizer" -> "tokenizer"
      [] call[p].entry = "AutoProcessor" -> "processor"
      [] call[p].entry = "AutoConfig" -> "config"
      [] OTHER -> "models"
C13_TypeName(p) ==
    LET tree == loc[p].config_args IN
    CASE call[p].entry = "AutoTokenizer" -> loc[p].class_name
      [] call[p].entry = "AutoProcessor" ->
            IF get(tree.items, "processor").k = "dict"
            THEN get(tree.items["processor"].items, "type") ELSE None
      [] call[p].entry = "AutoConfig" ->
            get(tree.items["model"].items["model_config"].items, "type")
      [] OTHER -> get(tree.items["model"].items["arch"].items, "type")

\* a class is registered under the module type and the name
C13_Registered(p) ==
    \E entry \in Registry :
        entry[1] = C13_ModuleType(p) /\ Val(entry[2]) = C13_TypeName(p)

\* the call came to the registry
C13_Pre(p) == Done(p) /\ Has(p, "lookup")

\* C13: a build whose type name was never registered under the module type fails
\* with UnregisteredType and returns no instance; AutoTokenizer.from_pretrained fails
\* this way when the resolved class name, an absent one included, is not registered
\* under 'tokenizer', and builds an instance of the named class when it is.
C13_Unregistered ==
    \A p \in Procs :
        C13_Pre(p) =>
            /\ ~C13_Registered(p) =>
                  /\ Raised(p, "ValueError", "UnregisteredType")
                  /\ result[p].value = None
                  /\ ~Has(p, "build")
            /\ (call[p].entry = "AutoTokenizer" /\ C13_Registered(p)) =>
                  /\ result[p].kind = "return"
                  /\ result[p].value.cls = C13_TypeName(p).v

\* a tokenizer call whose cached configuration names no tokenizer class
C13_Witness ==
    \E p \in Procs :
        /\ C13_Pre(p)
        /\ call[p].entry = "AutoTokenizer"
        /\ loc[p].class_name = None
        /\ result[p].kind = "raise"

\* a from_config call whose architecture name is not a registered model
C13_WitnessModel ==
    \E p \in Procs :
        /\ C13_Pre(p)
        /\ call[p].entry = "from_config"
        /\ ~C13_Registered(p)

(***************************************************************************)
(* C14                                                                     *)
(***************************************************************************)
\* a from_pretrained call whose argument is not a string
C14_Pre(p) ==
    /\ Done(p)
    /\ call[p].entry \in FromPretrained
    /\ call[p].arg.t # "str"

\* C14: each of the four from_pretrained entry points, given an argument that is not
\* a string, fails with InvalidArgument (TypeError) as its first action: the call
\* examines no identifier, creates no directory, copies no file, and consults neither
\* the registry nor the side table before it fails.
C14_NotAString ==
    \A p \in Procs :
        C14_Pre(p) =>
            /\ Raised(p, "TypeError", "InvalidArgument")
            /\ events[p] = <<>>
            /\ loc[p] = NoLoc
            /\ fs = Before(p)
            /\ heap[p] = snap[p].heap
            /\ name_table[p] = snap[p].name_table

\* AutoTokenizer given a non-string
C14_Witness ==
    \E p \in Procs : C14_Pre(p) /\ call[p].entry = "AutoTokenizer"

(***************************************************************************)
(* C15                                                                     *)
(***************************************************************************)
\* what the static registry gives each entry point at process start: the model
\* families for AutoConfig and AutoModel, the same without 'mae' for AutoProcessor,
\* the tokenizer families for AutoTokenizer
C15_AtStart(cls) ==
    CASE cls = "AutoTokenizer" -> get_tokenizer_support_list
      [] cls = "AutoProcessor" ->
            [family \in {f \in DOMAIN get_model_support_list : f # mae} |->
                get_model_support_list[family]]
      [] OTHER -> get_model_support_list

\* C15: the SupportList of each entry point is immutable at runtime: across any
\* sequence of from_pretrained, from_config, show_support_list and get_support_list
\* calls, every entry point's family-to-identifiers mapping stays equal to its value
\* at process start.
C15_Immutable ==
    \A cls \in FromPretrained : SupportListOf(cls) = C15_AtStart(cls)

\* after a resolution through the cache, AutoProcessor's list has been shown
C15_Witness ==
    \E p \in Procs :
        /\ Done(p)
        /\ call[p].entry = "show_support_list"
        /\ call[p].arg.s = <<"AutoProcessor">>
        /\ prev.valid

(***************************************************************************)
(* C16                                                                     *)
(***************************************************************************)
\* the cached config files of a filesystem
C16_Cached(f) ==
    {path \in DOMAIN f : Len(path) = 3 /\ path[1] = checkpoint_download /\ f[path].kind = "file"}

\* a call is under way and resolves a bare name whose cached file was there already
C16_Pre(p) ==
    /\ loc[p].branch = "cache"
    /\ CacheFile(ArgStr(p)) \in C16_Cached(Before(p))

\* C16: a cache entry, once there, is reused by every later resolution of the
\* identifier through any of the four entry points: no resolver call deletes,
\* overwrites or re-copies a cached file (also when the bundled template has changed
\* or disappeared since), and the later call loads its configuration from it.
C16_CacheReused ==
    \A p \in Procs :
        /\ pc[p] \notin {"idle", "off"} =>
              \A path \in C16_Cached(Before(p)) :
                  path \in DOMAIN fs /\ fs[path] = Before(p)[path]
        /\ C16_Pre(p) =>
              /\ ~Has(p, "copy")
              /\ Has(p, "load") => loc[p].yaml_file = CacheFile(ArgStr(p))
              /\ (Has(p, "ConfigLoaded") /\ ~Has(p, "lookup") /\ ~Done(p)) =>
                    loc[p].config_args = Before(p)[CacheFile(ArgStr(p))].content
              /\ (Done(p) /\ result[p].kind = "return") => Has(p, "ConfigLoaded")

\* a second resolution, after the template was replaced or removed
C16_Witness ==
    \E p \in Procs :
        /\ C16_Pre(p) /\ Done(p)
        /\ prev.valid /\ prev.s = ArgStr(p)
        /\ Has(p, "ConfigLoaded")
        /\ \/ Template(ArgStr(p)) \notin DOMAIN fs
           \/ fs[Template(ArgStr(p))].content # fs[CacheFile(ArgStr(p))].content

(***************************************************************************)
(* C17                                                                     *)
(***************************************************************************)
\* a from_pretrained or from_config call is over
C17_Pre(p) == Done(p) /\ call[p].entry \in Entries

\* the filesystem differs from the one the call began with inside the cache only
C17_OnlyCache(p) ==
    /\ \A path \in DOMAIN Before(p) :
          /\ path \in DOMAIN fs
          /\ fs[path].kind = Before(p)[path].kind
          /\ fs[path].content = Before(p)[path].content
          /\ (path # <<>> /\ path[1] # checkpoint_download) => fs[path] = Before(p)[path]
    /\ \A path \in DOMAIN fs : path \in DOMAIN Before(p) \/ path[1] = checkpoint_download

\* the config objects the caller held when the call began are as they were
C17_ObjectsKept(p, except) ==
    \A i \in (DOMAIN snap[p].heap) \ except :
        i \in DOMAIN heap[p] /\ heap[p][i] = snap[p].heap[i]

\* C17 (as amended): the SupportLists are unchanged by every from_pretrained and
\* from_config call, and outside the returned object a call changes only: the cache
\* directory on disk; the identity-keyed side table, to which a returning
\* AutoConfig.from_pretrained adds (or in which it overwrites) the entry of the
\* returned config object; and the config object handed to AutoModel.from_config,
\* which is tagged with type keys and loses its model_name key in place.
C17_Frame ==
    \A p \in Procs :
        C17_Pre(p) =>
            /\ \A cls \in FromPretrained : SupportListOf(cls) = C15_AtStart(cls)
            /\ C17_OnlyCache(p)
            /\ IF call[p].entry = "AutoConfig" /\ result[p].kind = "return"
               THEN /\ DOMAIN name_table[p] = DOMAIN snap[p].name_table \cup {result[p].value.id}
                    /\ name_table[p][result[p].value.id] =
                          get(loc[p].config_args.items["model"].items["arch"].items, "type")
                    /\ \A i \in (DOMAIN snap[p].name_table) \ {result[p].value.id} :
                          name_table[p][i] = snap[p].name_table[i]
                    /\ result[p].value.id \notin DOMAIN snap[p].heap
               ELSE name_table[p] = snap[p].name_table
            /\ IF call[p].entry = "from_config" /\ call[p].arg.t = "BaseConfig"
               THEN /\ C17_ObjectsKept(p, {call[p].arg.id})
                    /\ get(heap[p][call[p].arg.id].items, "type") = Val(C6_cfg(p).cls)
                    /\ "model_name" \notin DOMAIN heap[p][call[p].arg.id].items
               ELSE C17_ObjectsKept(p, {})

\* C17 as stated: after a call returns, nothing outside the returned object has
\* changed but the cache directory; every process-wide table is as it was
C17_Original ==
    \A p \in Procs :
        (C17_Pre(p) /\ result[p].kind = "return") =>
            /\ C17_OnlyCache(p)
            /\ name_table[p] = snap[p].name_table
            /\ C17_ObjectsKept(p, {})

\* AutoConfig.from_pretrained returned and left an entry in the side table
C17_Witness ==
    \E p \in Procs :
        /\ C17_Pre(p)
        /\ call[p].entry = "AutoConfig"
        /\ result[p].kind = "return"
        /\ name_table[p] # snap[p].name_table
        /\ fs # Before(p)

(***************************************************************************)
(* C18 (under SpecRace)                                                    *)
(***************************************************************************)
\* p resolves a supported bare name that had no cache entry when the call began
C18_Pre(p) ==
    /\ loc[p].branch = "cache"
    /\ CacheDir(ArgStr(p)) \notin DOMAIN Before(p)

\* both processes resolve the same name, and neither found a cache entry
C18_Same ==
    /\ C18_Pre("p1") /\ C18_Pre("p2")
    /\ ArgStr("p1") = ArgStr("p2")

\* C18: two processes resolving the same supported bare name are not mutually
\* excluded, the existence checks and the create and copy steps being separate,
\* unlocked steps: a process stands past its 'cache directory absent' check whether
\* or not the directory has been created meanwhile, its os.makedirs then fails with
\* FileExistsError, which happens in no other way, and ends the call before any copy
\* or load; a process past its 'cached config absent' check copies the template
\* whether or not the other has copied it already.
C18_Unlocked ==
    \A p \in Procs :
        /\ Raised(p, "FileExistsError", "FileExists") =>
              /\ loc[p].checkpoint_path \notin DOMAIN Before(p)
              /\ isdir(fs, loc[p].checkpoint_path)
              /\ events[p] = <<"Resolving", "mkdir">>
        /\ (pc[p] = "cache_mkdir" /\ exists(fs, loc[p].checkpoint_path)) =>
              loc[p].checkpoint_path \notin DOMAIN Before(p)
        /\ (pc[p] = "cache_copy" /\ exists(fs, loc[p].yaml_file)) =>
              loc[p].yaml_file \notin DOMAIN Before(p)
        /\ (Has(p, "copy") /\ ~Raised(p, "FileNotFoundError", "NotFound")) =>
              /\ loc[p].yaml_file \notin DOMAIN Before(p)
              /\ Has(p, "CacheResolved")

\* both passed the 'cached config absent' check and both copied the template
C18_Witness ==
    /\ C18_Same
    /\ Has("p1", "copy") /\ Has("p2", "copy")
    /\ Has("p1", "CacheResolved") /\ Has("p2", "CacheResolved")

\* both passed the 'cache directory absent' check before either created it
C18_WitnessMkdir ==
    /\ C18_Same
    /\ pc["p1"] = "cache_mkdir" /\ pc["p2"] = "cache_mkdir"
    /\ ~exists(fs, CacheDir(ArgStr("p1")))

\* one of the two then fails in os.makedirs
C18_WitnessFileExists ==
    /\ C18_Same
    /\ Raised("p2", "FileExistsError", "FileExists")
    /\ Has("p1", "mkdir")

(***************************************************************************)
(* C19 (under SpecInverse)                                                 *)
(***************************************************************************)
\* the fields of the objects that hold a config object
C19_Edges(objs) ==
    {e \in UNION {{<<i, key>> : key \in DOMAIN objs[i].items} : i \in DOMAIN objs} :
        objs[e[1]].items[e[2]].k = "ref"}
C19_Into(objs, j) == {e \in C19_Edges(objs) : objs[e[1]].items[e[2]].id = j}

\* the objects reachable from a set of objects in at most n steps
RECURSIVE C19_Reach(_, _, _)
C19_Reach(objs, from, n) ==
    IF n = 0 THEN from
    ELSE C19_Reach(objs, from \cup {objs[e[1]].items[e[2]].id : e \in {d \in C19_Edges(objs) : d[1] \in from}},
                   n - 1)

\* the nested config fields form a tree under the root: every object is reached,
\* the root is held by no field and every other object by exactly one
C19_IsTree(objs, root) ==
    /\ root.k = "ref"
    /\ C19_Reach(objs, {root.id}, Cardinality(DOMAIN objs)) = DOMAIN objs
    /\ C19_Into(objs, root.id) = {}
    /\ \A j \in (DOMAIN objs) \ {root.id} : Cardinality(C19_Into(objs, j)) = 1

\* no object is reached from itself
C19_Acyclic(objs, root) ==
    /\ root.k = "ref"
    /\ \A i \in DOMAIN objs :
          i \notin C19_Reach(objs, {objs[e[1]].items[e[2]].id : e \in {d \in C19_Edges(objs) : d[1] \in {i}}},
                            Cardinality(DOMAIN objs))

RECURSIVE C19_Sum(_, _)
C19_Sum(f, S) == IF S = {} THEN 0 ELSE LET x == CHOOSE x \in S : TRUE IN f[x] + C19_Sum(f, S \ {x})

\* the calls the conversion of a tree takes: one for the root and one for every key,
\* the type key included, of every object
C19_Calls(objs) ==
    1 + C19_Sum([i \in DOMAIN objs |-> Cardinality(DOMAIN objs[i].items \cup {"type"})], DOMAIN objs)

C19_Over == walk.stack = <<>>

\* C19: _inverse_parse_config terminates on every acyclic config object: on a config
\* whose nested config fields form a finite tree the recursion enters each nested
\* config once, takes a bounded number of calls, can always take its next step until
\* it is over, and then has returned the config; a value that is not a config object
\* is returned unchanged, and the call that got it does not recurse.
C19_Terminates ==
    /\ C19_IsTree(walk.input, walk.root) =>
          /\ \A i \in DOMAIN walk.objs : walk.visits[i] <= 1
          /\ walk.calls <= C19_Calls(walk.input)
          /\ Len(walk.stack) <= Cardinality(DOMAIN walk.objs) + 1
          /\ ~C19_Over => ENABLED NextInverse
          /\ C19_Over =>
                /\ walk.ret = [kind |-> "return", value |-> walk.root]
                /\ \A i \in DOMAIN walk.objs : walk.visits[i] = 1
                /\ walk.calls = C19_Calls(walk.input)
    /\ C19_Acyclic(walk.input, walk.root) =>
          /\ walk.ret.kind # "raise"
          /\ ~C19_Over => ENABLED NextInverse
          /\ C19_Over => walk.ret = [kind |-> "return", value |-> walk.root]
    /\ \A n \in 1..Len(walk.stack) :
          walk.stack[n].arg.k # "ref" =>
              /\ walk.stack[n].phase = "enter"
              /\ n = Len(walk.stack)
    /\ (walk.root.k # "ref" /\ walk.stack # <<>>) => ENABLED NextInverse
    /\ (walk.root.k # "ref" /\ C19_Over) =>
          /\ walk.ret = [kind |-> "return", value |-> walk.root]
          /\ walk.calls = 1
          /\ walk.objs = walk.input

\* the conversion of a chain of three nested configs is over
C19_Witness ==
    /\ C19_Over
    /\ walk.input = ChainConfig
    /\ C19_IsTree(walk.input, walk.root)
    /\ walk.ret.kind = "return"

\* a value that is not a config object came back
C19_WitnessValue ==
    /\ C19_Over
    /\ walk.root.k # "ref"
    /\ walk.ret.kind = "return"

\* on a config whose child refers back to it the recursion ends in RecursionError
C19_WitnessCycle == C19_Over /\ walk.ret.kind = "raise"

(***************************************************************************)
(* C20 (under SpecInverse)                                                 *)
(***************************************************************************)
C20_ClassName(i) == walk.input[i].cls
C20_Nested == C19_Reach(walk.input, {walk.root.id}, Cardinality(DOMAIN walk.input))
C20_Pre ==
    /\ C19_Over
    /\ C19_Acyclic(walk.input, walk.root)

\* C20: after _inverse_parse_config(cfg) on an acyclic config, cfg and every config
\* object nested in it at any depth carries a type key equal to its class name,
\* whatever type it had before, and every other key keeps the value it held (a nested
\* config stays the same object).
C20_Tagged ==
    C20_Pre =>
        \A i \in C20_Nested :
            /\ "type" \in DOMAIN walk.objs[i].items
            /\ walk.objs[i].items["type"] = [k |-> "val", v |-> C20_ClassName(i)]
            /\ DOMAIN walk.objs[i].items = DOMAIN walk.input[i].items \cup {"type"}
            /\ \A key \in (DOMAIN walk.input[i].items) \ {"type"} :
                  walk.objs[i].items[key] = walk.input[i].items[key]

\* a nested config that carried another type has been converted, and its parent's
\* plain value is as it was
C20_Witness ==
    /\ C20_Pre
    /\ walk.input = TreeConfig
    /\ walk.input[2].items["type"] # [k |-> "val", v |-> C20_ClassName(2)]
    /\ walk.objs[2].items["type"] = [k |-> "val", v |-> C20_ClassName(2)]
    /\ walk.objs[1].items["model_name"] = walk.input[1].items["model_name"]

\* the config at the third level of a chain has been tagged
C20_WitnessDepth ==
    /\ C20_Pre
    /\ walk.input = ChainConfig
    /\ "type" \in DOMAIN walk.objs[3].items
    /\ walk.objs[2].items["extra"] = walk.input[2].items["extra"]

(***************************************************************************)
(* C21                                                                     *)
(***************************************************************************)
\* from_config was given a config object and _wrap_config has returned
C21_Pre(p) ==
    /\ call[p].entry = "from_config"
    /\ call[p].arg.t = "BaseConfig"
    /\ pc[p] \in {"from_config_build", "done"}

\* the object when the call began, and the same object now
C21_given(p) == snap[p].heap[call[p].arg.id]
C21_tree(p) == heap[p][call[p].arg.id]

C21_HasName(p) ==
    /\ "model_name" \in DOMAIN C21_given(p).items
    /\ C21_given(p).items["model_name"].k # "none"
C21_InTable(p) == call[p].arg.id \in DOMAIN snap[p].name_table

\* C21: _wrap_config(tree) returns exactly {model: {model_config: tree, arch: {type:
\* name}}}: name is tree's model_name when the key is present and not None, else the
\* side table's entry for the tree's identity, else None; the nested model_config is
\* the tree without its model_name key; the wrapping itself never raises.
C21_Wrap ==
    \A p \in Procs :
        C21_Pre(p) =>
            LET wrapped == loc[p].config_args
                model == wrapped.items["model"]
                arch == model.items["arch"]
            IN  /\ loc[p].branch = "config"
                /\ DOMAIN wrapped.items = {"model"}
                /\ DOMAIN model.items = {"model_config", "arch"}
                /\ DOMAIN arch.items = {"type"}
                /\ model.items["model_config"] = C21_tree(p)
                /\ DOMAIN C21_tree(p).items =
                      (DOMAIN C21_given(p).items \cup {"type"}) \ {"model_name"}
                /\ C21_HasName(p) => arch.items["type"] = C21_given(p).items["model_name"]
                /\ (~C21_HasName(p) /\ C21_InTable(p)) =>
                      arch.items["type"] = snap[p].name_table[call[p].arg.id]
                /\ (~C21_HasName(p) /\ ~C21_InTable(p)) => arch.items["type"].k = "none"
                /\ result[p].kind = "raise" => result[p].err = "UnregisteredType"

\* a config with a model_name of None and no side-table entry was wrapped with
\* arch.type None
C21_Witness ==
    \E p \in Procs :
        /\ C21_Pre(p)
        /\ pc[p] = "from_config_build"
        /\ "model_name" \in DOMAIN C21_given(p).items
        /\ ~C21_HasName(p) /\ ~C21_InTable(p)
        /\ loc[p].config_args.items["model"].items["arch"].items["type"].k = "none"

\* the name came from the config's own model_name key, which is gone afterwards
C21_WitnessName ==
    \E p \in Procs :
        /\ C21_Pre(p)
        /\ C21_HasName(p)
        /\ "model_name" \notin DOMAIN C21_tree(p).items

\* the name came from the side table
C21_WitnessTable ==
    \E p \in Procs :
        /\ C21_Pre(p)
        /\ ~C21_HasName(p) /\ C21_InTable(p)
        /\ loc[p].config_args.items["model"].items["arch"].items["type"].k = "val"

(***************************************************************************)
(* C22                                                                     *)
(***************************************************************************)
\* the value a tree has under checkpoint_name_or_path, None if it has none
C22_Key(tree) ==
    IF "checkpoint_name_or_path" \in DOMAIN tree.items
    THEN tree.items["checkpoint_name_or_path"] ELSE None

\* the model config of a loaded tree
C22_ModelConfig(tree) == tree.items["model"].items["model_config"]

\* AutoModel.from_pretrained has loaded the tree and gone on to the build
C22_Pre(p) ==
    /\ call[p].entry = "AutoModel"
    /\ pc[p] = "done"
    /\ Has(p, "ConfigLoaded")

C22_IsDir(p) == PathOf(ArgStr(p)) \in DOMAIN Before(p) /\ Before(p)[PathOf(ArgStr(p))].kind = "dir"

\* the value is right for the branch: a '.ckpt' file of the directory, the one the
\* scan chose, or the identifier itself
C22_Right(p, value) ==
    IF C22_IsDir(p)
    THEN /\ value.k = "path"
         /\ SubSeq(value.path, 1, Len(value.path) - 1) = PathOf(ArgStr(p))
         /\ C10_Ends(value.path[Len(value.path)], dot_ckpt)
         /\ value.path \in DOMAIN Before(p)
         /\ value.path = loc[p].ckpt_file
    ELSE /\ value.k = "str"
         /\ value.s = ArgStr(p)

\* from_config has returned a model
C22_PreConfig(p) ==
    /\ call[p].entry = "from_config"
    /\ pc[p] = "done"
    /\ result[p].kind = "return"

\* what from_config was given: the config object, or the tree of the file
C22_Source(p) ==
    IF call[p].arg.t = "BaseConfig" THEN snap[p].heap[call[p].arg.id]
    ELSE C22_ModelConfig(Before(p)[PathOf(ArgStr(p))].content)

\* C22: AutoModel.from_pretrained always puts checkpoint_name_or_path into
\* model.model_config of the loaded tree before the model is built, whatever the file
\* said: the chosen '.ckpt' file's path for a directory, the identifier itself for a
\* bare name; the model is built from the tree that carries it.  AutoModel.from_config
\* never adds or changes that key.
C22_Inject ==
    \A p \in Procs :
        /\ C22_Pre(p) =>
              /\ C22_Right(p, C22_Key(C22_ModelConfig(loc[p].config_args)))
              /\ result[p].kind = "return" => C22_Right(p, C22_Key(result[p].value.config))
        /\ C22_PreConfig(p) =>
              /\ C22_Key(result[p].value.config) = C22_Key(C22_Source(p))
              /\ call[p].arg.t = "BaseConfig" =>
                    C22_Key(heap[p][call[p].arg.id]) = C22_Key(C22_Source(p))

\* a bare name whose file carries a value of its own: the model got the identifier
C22_Witness ==
    \E p \in Procs :
        /\ C22_Pre(p)
        /\ ~C22_IsDir(p)
        /\ result[p].kind = "return"
        /\ C22_Key(C22_ModelConfig(fs[loc[p].yaml_file].content)).k = "val"
        /\ C22_Key(result[p].value.config).k = "str"

\* a directory: the model got the path of the weight file
C22_WitnessDir ==
    \E p \in Procs :
        /\ C22_Pre(p)
        /\ C22_IsDir(p)
        /\ result[p].kind = "return"
        /\ C22_Key(result[p].value.config).k = "path"

\* from_config on a config object that carries a value: the model has the same one
C22_WitnessConfig ==
    \E p \in Procs :
        /\ C22_PreConfig(p)
        /\ call[p].arg.t = "BaseConfig"
        /\ C22_Key(C22_Source(p)).k = "val"

\* from_config on a file: nothing was injected
C22_WitnessConfigPath ==
    \E p \in Procs :
        /\ C22_PreConfig(p)
        /\ call[p].arg.t = "str"
        /\ C22_Key(result[p].value.config).k = "none"

(***************************************************************************)
(* C23                                                                     *)
(***************************************************************************)
\* AutoProcessor.from_pretrained was given an existing directory without a ".yaml"
\* file and is over
C23_Pre(p) ==
    /\ Done(p)
    /\ call[p].entry = "AutoProcessor"
    /\ call[p].arg.t = "str"
    /\ isdir(Before(p), PathOf(ArgStr(p)))
    /\ C10_At(p, dot_yaml) = {}

\* C23: AutoProcessor.from_pretrained on an existing directory that contains no file
\* with the ".yaml" extension fails with NotFound (FileNotFoundError), as directory
\* resolution does for the other entry points, and builds no processor.
C23_ProcessorEmptyDir ==
    \A p \in Procs :
        C23_Pre(p) =>
            /\ Raised(p, "FileNotFoundError", "NotFound")
            /\ ~Has(p, "build")

\* what the code does in that case: the call fails, but with the IndexError of
\* yaml_list[0], and nothing is built
C23_IndexError ==
    \A p \in Procs :
        C23_Pre(p) =>
            /\ Raised(p, "IndexError", "IndexError")
            /\ ~Has(p, "lookup") /\ ~Has(p, "build")
            /\ fs = Before(p)

\* such a call is over
C23_Reached == \E p \in Procs : C23_Pre(p)

(***************************************************************************)
(* C24 (under SpecDownload)                                                *)
(***************************************************************************)
C24_Count(ev) == Cardinality({i \in 1..Len(download.log) : download.log[i] = ev})
C24_Over == download.pc = "done"
C24_Answered == download.response.kind = "response"

\* C24: downlond_with_progress_bar reports failure through the status-code check: for
\* every response whose status code is not 200 the call raises, has issued exactly one
\* request (there is no retry) and has neither created nor written the target file;
\* the target file is opened for writing only after the status code was found to be
\* 200.
C24_StatusCheck ==
    /\ download.requests <= 1
    /\ (C24_Answered /\ download.response.status_code # 200) =>
          /\ download.file = download.before
          /\ C24_Count("open") = 0 /\ C24_Count("write") = 0
          /\ ~C24_Over => ENABLED NextDownload
          /\ C24_Over =>
                /\ download.result.kind = "raise"
                /\ download.requests = 1
    /\ \A i \in 1..Len(download.log) :
          download.log[i] = "open" =>
              /\ download.response.status_code = 200
              /\ \E j \in 1..(i - 1) : download.log[j] = "status"
    /\ download.file # download.before => C24_Count("open") = 1

\* a 404 with a well-formed header was turned down by the status check; the file that
\* was there is as it was
C24_Witness ==
    /\ C24_Over
    /\ download.response.status_code = 404
    /\ C24_Count("status") = 1
    /\ download.result = [kind |-> "raise", exc |-> "KeyError"]
    /\ download.before.exists /\ download.file = download.before

\* a 200 was written to the file
C24_WitnessWritten ==
    /\ C24_Over
    /\ download.result.kind = "return"
    /\ download.file.data = <<7, 8, 9>>

(***************************************************************************)
(* C25 (under SpecReuse)                                                   *)
(***************************************************************************)
\* from_config has wrapped a config object, and the call before it was from_config on
\* this very object
C25_Pre(p) ==
    /\ call[p].entry = "from_config"
    /\ call[p].arg.t = "BaseConfig"
    /\ pc[p] = "from_config_build"
    /\ prev.entry = "from_config"
    /\ prev.serial = origin[p][call[p].arg.id].serial

C25_ArchType(p) == loc[p].config_args.items["model"].items["arch"].items["type"]

\* C25: AutoModel.from_config is repeatable on the same config object: two calls in
\* sequence on one object, whether it carried a model_name key or came from
\* AutoConfig.from_pretrained, wrap it with the same model.arch.type.
C25_Repeatable ==
    \A p \in Procs : C25_Pre(p) => C25_ArchType(p) = prev.arch

\* the same, for the objects AutoConfig.from_pretrained made and the ones that never
\* carried a model_name
C25_RepeatableFromPretrained ==
    \A p \in Procs :
        (C25_Pre(p) /\ (origin[p][call[p].arg.id].by = "AutoConfig" \/ prev.arch = None)) =>
            C25_ArchType(p) = prev.arch

\* a second from_config on an object that AutoConfig made
C25_Reached ==
    \E p \in Procs :
        /\ C25_Pre(p)
        /\ origin[p][call[p].arg.id].by = "AutoConfig"
        /\ C25_ArchType(p).k = "val"

(***************************************************************************)
(* C26 (under SpecReuse)                                                   *)
(***************************************************************************)
\* from_config has wrapped a config object that had no model_name key
C26_Pre(p) ==
    /\ call[p].entry = "from_config"
    /\ call[p].arg.t = "BaseConfig"
    /\ pc[p] = "from_config_build"
    /\ "model_name" \notin DOMAIN snap[p].heap[call[p].arg.id].items

\* the object the call was given: who made it, and from which file's architecture
C26_Origin(p) == origin[p][call[p].arg.id]
C26_Recovered(p) == loc[p].config_args.items["model"].items["arch"].items["type"]

\* C26: for every config without a model_name key passed to AutoModel.from_config, the
\* name recovered from the side table is the model.arch.type of the file this very
\* object was built from by AutoConfig.from_pretrained; whatever objects were made,
\* dropped and followed by others of the same identity, the lookup never gives a name
\* recorded for another, earlier object.
C26_SideTable ==
    \A p \in Procs :
        C26_Pre(p) =>
            IF C26_Origin(p).by = "AutoConfig"
            THEN C26_Recovered(p) = C26_Origin(p).arch
            ELSE C26_Recovered(p) = None

\* the same, for the objects AutoConfig.from_pretrained made
C26_SideTableOwn ==
    \A p \in Procs :
        (C26_Pre(p) /\ C26_Origin(p).by = "AutoConfig") =>
            C26_Recovered(p) = C26_Origin(p).arch

\* an object of AutoConfig's whose identity an earlier object had: its own name is
\* recovered
C26_Reached ==
    \E p \in Procs :
        /\ C26_Pre(p)
        /\ C26_Origin(p).by = "AutoConfig"
        /\ C26_Origin(p).serial > 1

(***************************************************************************)
(* C27                                                                     *)
(***************************************************************************)
\* a from_pretrained entry point has classified a string that is both listed in its
\* SupportList and the name of an existing filesystem entry
C27_Pre(p) ==
    /\ call[p].entry \in FromPretrained
    /\ call[p].arg.t = "str"
    /\ Has(p, "Resolving")
    /\ Listed(call[p].entry, ArgStr(p))
    /\ PathOf(ArgStr(p)) \in DOMAIN Before(p)

\* the call took the string for a bare name: it went to the cache
C27_BareName(p) == loc[p].branch = "cache"

\* AutoConfig, AutoModel and AutoProcessor look at the filesystem first: such a string
\* is a path to them
C27_FilesystemFirst ==
    \A p \in Procs :
        (C27_Pre(p) /\ call[p].entry # "AutoTokenizer") => ~C27_BareName(p)

\* C27: the four from_pretrained entry points classify an identifier the same way: a
\* string that is both listed in the SupportList and the name of an existing
\* filesystem entry is taken down the same branch by all four (the path branch, the
\* one AutoConfig, AutoModel and AutoProcessor take); none checks the SupportList
\* before the filesystem while another checks the filesystem first.
C27_SameBranch ==
    \A p \in Procs : C27_Pre(p) => ~C27_BareName(p)

\* each of the other three entry points has classified such a string
C27_Reached ==
    \E p \in Procs :
        /\ C27_Pre(p)
        /\ call[p].entry = "AutoModel"
        /\ loc[p].branch = "dir"

(***************************************************************************)
(* C28 (under SpecMaker)                                                   *)
(***************************************************************************)
C28_n == Len(maker.input_ids)
C28_Over == maker.pc = "done"

\* C28: AlpacaDatasetMaker.make_prompt_ids returns a list of exactly seq_length token
\* ids whatever the length n of the tokenizer's output (shorter than, equal to or
\* longer than seq_length, seq_length >= 1): its first min(n, seq_length) ids are the
\* tokenizer's ids in order, and every position after the n-th, when n < seq_length,
\* holds eos_token_id.
C28_ExactLength ==
    /\ ~C28_Over => ENABLED NextMaker
    /\ C28_Over =>
          /\ Len(maker.returned) = maker.seq_length
          /\ \A i \in 1..maker.seq_length :
                IF i <= C28_n THEN maker.returned[i] = maker.input_ids[i]
                ELSE maker.returned[i] = 2

\* a shorter output was filled up with more than one eos
C28_Witness ==
    /\ C28_Over
    /\ C28_n >= 1
    /\ C28_n + 2 <= maker.seq_length
    /\ maker.returned[maker.seq_length] = 2

\* a longer output was cut
C28_WitnessLonger == C28_Over /\ C28_n > maker.seq_length
\* an output of exactly seq_length ids came back as it was
C28_WitnessEqual == C28_Over /\ C28_n = maker.seq_length /\ maker.returned = maker.input_ids

(***************************************************************************)
(* C29 (under SpecCell)                                                    *)
(***************************************************************************)
C29_Over == cell.pc = "done"
\* the call has something to scale the gradients with: a sens, or the loss scale of a
\* loss-scaling manager
C29_Pre == cell.sens = "given" \/ cell.scale_update_cell = "manager"

\* overflows seen: on this device, or on any device when the cell is distributed
C29_FlagSum ==
    Cardinality({i \in 1..Len(cell.status) : cell.status[i] = 1})
    + (IF cell.is_distributed THEN cell.others ELSE 0)
C29_Cond == C29_FlagSum >= 1

\* the overflow that is reported for the step
C29_Reported == IF cell.sens = "given" THEN C29_Cond ELSE cell.manager_result

C29_WitnessManager ==
    /\ C29_Over
    /\ cell.sens = "None"
    /\ cell.manager_result /\ ~C29_Cond
    /\ cell.applied = 0

\* a step without overflow: the optimizer was applied
C29_WitnessApplied == C29_Over /\ cell.applied = 1 /\ cell.weights = 1

(***************************************************************************)
(* C30 (under SpecDataset)                                                 *)
(***************************************************************************)
C30_Caller == dataset.objs["caller"]
C30_Kind == dataset.given["type"]

\* C30: constructing a KeyWordGenDataset leaves the caller's dataset_config unchanged
\* for both loader kinds, so that the same dataset_config can be used to construct the
\* dataset a second time: neither the raw-text path nor the MindDataset path removes
\* dataset_dir, or any other key, from the caller's data_loader configuration, and a
\* second construction ends as the first did.
C30_ConfigKept ==
    /\ C30_Caller = dataset.given
    /\ Len(dataset.results) = 2 => dataset.results[2] = dataset.results[1]

\* the same, for the MindDataset path
C30_ConfigKeptMindDataset ==
    C30_Kind = "MindDataset" =>
        /\ C30_Caller = dataset.given
        /\ Len(dataset.results) = 2 => dataset.results[2] = dataset.results[1]

\* a MindDataset was constructed twice from a dataset_config with a dataset_dir
C30_Reached ==
    /\ C30_Kind = "MindDataset"
    /\ "dataset_dir" \in DOMAIN dataset.given
    /\ Len(dataset.results) = 2
    /\ dataset.results[2].kind = "return"

====
